---------------------------- MODULE Spec2Model ----------------------------
(***************************************************************************)
(* LabxDB-tools: reconciliation of archive (SRA) metadata with the local   *)
(* metadata store (labxdb_scripts/import_sra_id.py), retrieval of the      *)
(* archive metadata (labxdb/ncbi.py, both copies of the repository) and    *)
(* discovery and inspection of FASTQ files (labxdb/fastq.py).              *)
(*                                                                         *)
(* Strings that the code splits or searches are sequences of one-character *)
(* strings, so that str.split(',') and the store's FUZZY criterion compute *)
(* on the characters.  Python's None (SQL NULL) is the value None.         *)
(***************************************************************************)
EXTENDS Integers, Sequences, FiniteSets, TLC

VARIABLES
    replicates,     \* store: rows of table replicate, in store-returned order
    runs,           \* store: rows of table run, in store-returned order
    samples,        \* project['samples']
    queries,        \* update_ref: the queued edits
    warnings,       \* search_replicate_ref / update_ref: the warnings printed, in order
    posted,         \* the edits main posted to the store, in order
    dry,            \* config['dry']
    total_nwarn,    \* main: nwarn
    sra_runs,       \* check_replicates / check_runs: the pool of external runs
    missing,        \* the 'Missing run' list printed by check_runs
    queried,        \* pool indexes check_runs looked up in the store, in order
    summed,         \* per lookup with one match: local run, pool indexes summed, sum
    docs,           \* archive: the documents behind the identifiers of the search
    import_runs,    \* get_samples_infos: the run filter
    srp_title,      \* get_samples_infos: the title collected so far
    project,        \* get_samples_infos: the Project returned
    requests,       \* get_samples_infos: the fetch requests issued and the pauses
    returned,       \* parse_sra_xml: the value returned
    path_seq,       \* get_fastq_info: the lines of the file at path_seq
    fqf,            \* get_fastq_info: the lines of the file not read yet
    info,           \* get_fastq_info: info
    nread,          \* get_fastq_info: nread
    max_len,        \* get_fastq_info: max_len
    get_spots,      \* get_fastq_info: get_spots
    walk,           \* find_fastqs: what os.walk yields, in order
    fastq_exts,     \* find_fastqs: fastq_exts
    fastq_fns,      \* find_fastqs: fastq_fns, the names of the parsers in order
    fastqs,         \* find_fastqs: the mapping returned, as <<key, list>> pairs in order
    valid,          \* check_fastqs: the value returned
    file_name,      \* the fname given to a file name parser
    error,          \* the exception raised (None while none is raised)
    pc,             \* position of the process
    i,              \* index of the loop the process is in
    nwarn,          \* warning counter of the running function
    nerror,         \* error counter of check_runs
    exit_status     \* status the process ended with (NotExited while running)

storeVars == <<replicates, runs>>
updateVars == <<samples, queries, warnings, posted, dry, total_nwarn>>
checkVars == <<sra_runs, missing, queried, summed>>
fetchVars == <<docs, import_runs, srp_title, project, requests, returned>>
fastqVars == <<path_seq, fqf, info, nread, max_len, get_spots, walk, fastq_exts, fastq_fns, fastqs, valid,
               file_name, error>>

vars == <<replicates, runs, samples, queries, warnings, posted, dry, total_nwarn, sra_runs, missing, queried,
          summed, docs, import_runs, srp_title, project, requests, returned, path_seq, fqf, info, nread,
          max_len,
          get_spots, walk, fastq_exts, fastq_fns, fastqs, valid, file_name, error, pc, i, nwarn, nerror,
          exit_status>>

\* None is no string of characters: its only element is not a character.
None == <<"None">>
\* exit_status while the process runs; <<n>> once it ended with status n.
NotExited == <<>>

-----------------------------------------------------------------------------
(* Strings *)

Comma == ","

\* str.split(','): the fields between the commas, empty fields kept.
RECURSIVE SplitFrom(_, _, _)
SplitFrom(s, k, cur) ==
    IF k > Len(s) THEN <<cur>>
    ELSE IF s[k] = Comma THEN <<cur>> \o SplitFrom(s, k + 1, <<>>)
    ELSE SplitFrom(s, k + 1, Append(cur, s[k]))

Split(s) == SplitFrom(s, 1, <<>>)

\* x in list
InList(x, list) == \E k \in 1..Len(list) : list[k] = x

\* A comma-joined field as the store holds it.
RECURSIVE Join(_)
Join(list) ==
    IF Len(list) = 0 THEN <<>>
    ELSE IF Len(list) = 1 THEN list[1]
    ELSE list[1] \o <<Comma>> \o Join(Tail(list))

\* Substring test.
Contains(s, sub) ==
    \E k \in 0..(Len(s) - Len(sub)) : SubSeq(s, k + 1, k + Len(sub)) = sub

\* The store's FUZZY criterion: a substring match; a NULL field matches nothing.
Fuzzy(field, value) == field # None /\ Contains(field, value)

\* The store's EQUAL criterion.
Equal(field, value) == field = value

RECURSIVE SumSpots(_, _)
SumSpots(pool, idx) ==
    IF idx = {} THEN 0
    ELSE LET k == CHOOSE x \in idx : TRUE
         IN pool[k].spots + SumSpots(pool, idx \ {k})

-----------------------------------------------------------------------------
(* Inputs *)

MaxPool == 3
MaxLocalRuns == 2

SRR1 == <<"R", "1">>
SRR10 == <<"R", "1", "0">>
SRR2 == <<"R", "2">>
SRR3 == <<"R", "3">>
ExtRefs == {SRR1, SRR10, SRR2, SRR3}
ExtSpots == {140, 150}
ReplicateRefs == {"A", "B"}

\* sra_ref of a linked local run: one run ref or a comma-joined list.
LinkedSraRefs == <<Join(<<SRR1>>), Join(<<SRR1, SRR2>>), Join(<<SRR2, SRR10>>)>>
LocalSpots == {150, 300}

\* The rows of table run that check_runs can be given (a row whose sra_ref is
\* NULL is matched by no FUZZY criterion), numbered.
LinkedRunRows ==
    {[replicate_ref |-> r, sra_ref |-> LinkedSraRefs[k], spots |-> n, key |-> k] :
       r \in ReplicateRefs, k \in 1..Len(LinkedSraRefs), n \in LocalSpots}

RowBefore(x, y) ==
    \/ x.key < y.key
    \/ x.key = y.key /\ x.spots < y.spots
    \/ x.key = y.key /\ x.spots = y.spots /\ (x.replicate_ref = "A" \/ y.replicate_ref = "B")

\* Tables of at most n linked rows; run_id is the row's position.  check_runs
\* reads a search result's length and, when it is 1, its only row, so that one
\* order of the rows stands for all of them.
LinkedRunTables(n) ==
    UNION {{[k \in 1..m |-> [run_id |-> k, replicate_ref |-> f[k].replicate_ref,
                             sra_ref |-> f[k].sra_ref, spots |-> f[k].spots]] :
            f \in {g \in [1..m -> LinkedRunRows] :
                     \A a, b \in 1..m : a < b => RowBefore(g[a], g[b])}} : m \in 0..n}

\* The pools check_replicates can return: runs of distinct refs, each tagged
\* with the replicate of its Sample, the runs of one Sample being adjacent;
\* the archive reports 150 spots for every run but at most one of the pool.
PoolRows == [ref : ExtRefs, spots : ExtSpots, replicate_ref : ReplicateRefs]

Pools(n) ==
    UNION {{p \in [1..m -> PoolRows] :
              /\ \A a, b \in 1..m : a # b => p[a].ref # p[b].ref
              /\ \A a, b \in 1..m : a < b => (p[a].replicate_ref = "B" => p[b].replicate_ref = "B")
              /\ \A a, b \in 1..m : a # b => (p[a].spots = 150 \/ p[b].spots = 150)} :
           m \in 1..n}

-----------------------------------------------------------------------------
(* check_runs *)

\* dbl.post('run', replicate_ref EQUAL ... AND sra_ref FUZZY ...)
SearchRuns(sra_run) ==
    SelectSeq(runs, LAMBDA r : Equal(r.replicate_ref, sra_run.replicate_ref)
                               /\ Fuzzy(r.sra_ref, sra_run.ref))

ToSum_IgnoreDone(pool, sra_refs) ==
    {k \in 1..Len(pool) : InList(pool[k].ref, sra_refs)}

\* The pool runs the inner loop sums: ref in sra_refs and not done.
ToSum(pool, sra_refs) ==
    {k \in 1..Len(pool) : InList(pool[k].ref, sra_refs) /\ pool[k].done = FALSE}

\* The pool with no run marked.
MarkDone_Nothing(pool, idx) == pool

MarkDone(pool, idx) ==
    [k \in 1..Len(pool) |-> IF k \in idx THEN [pool[k] EXCEPT !.done = TRUE] ELSE pool[k]]

MissingRuns_All(pool) == [k \in 1..Len(pool) |-> k]

\* The pool runs (by position) of the 'Missing run' list: those not done.
MissingRuns(pool) ==
    SelectSeq([k \in 1..Len(pool) |-> k], LAMBDA k : pool[k].done = FALSE)

\* The exit status of sys.exit() called without an argument.
SysExitStatus == 0

CheckRunsBegin ==
    /\ pc = "check_runs_begin"
    /\ nwarn' = 0
    /\ nerror' = 0
    /\ sra_runs' = [k \in 1..Len(sra_runs) |->
                      [ref |-> sra_runs[k].ref, spots |-> sra_runs[k].spots,
                       replicate_ref |-> sra_runs[k].replicate_ref, done |-> FALSE]]
    /\ i' = 1
    /\ pc' = "check_runs"
    /\ UNCHANGED <<storeVars, fastqVars, updateVars, fetchVars, exit_status, missing, queried, summed>>

CheckRunsSkip ==
    /\ pc = "check_runs"
    /\ i <= Len(sra_runs)
    /\ sra_runs[i].done # FALSE
    /\ i' = i + 1
    /\ UNCHANGED <<storeVars, fastqVars, updateVars, fetchVars, checkVars, pc, nwarn, nerror, exit_status>>

CheckRunsNone ==
    /\ pc = "check_runs"
    /\ i <= Len(sra_runs)
    /\ sra_runs[i].done = FALSE
    /\ Len(SearchRuns(sra_runs[i])) = 0
    /\ queried' = Append(queried, i)
    /\ nwarn' = nwarn + 1
    /\ i' = i + 1
    /\ UNCHANGED <<storeVars, fastqVars, updateVars, fetchVars, sra_runs, missing, summed, pc, nerror,
                   exit_status>>

CheckRunsSeveral ==
    /\ pc = "check_runs"
    /\ i <= Len(sra_runs)
    /\ sra_runs[i].done = FALSE
    /\ Len(SearchRuns(sra_runs[i])) > 1
    /\ queried' = Append(queried, i)
    /\ nwarn' = nwarn + 1
    /\ i' = i + 1
    /\ UNCHANGED <<storeVars, fastqVars, updateVars, fetchVars, sra_runs, missing, summed, pc, nerror,
                   exit_status>>

CheckRunsOne ==
    /\ pc = "check_runs"
    /\ i <= Len(sra_runs)
    /\ sra_runs[i].done = FALSE
    /\ Len(SearchRuns(sra_runs[i])) = 1
    /\ LET run == SearchRuns(sra_runs[i])[1]
           sra_refs == Split(run.sra_ref)
           idx == ToSum(sra_runs, sra_refs)
           sra_spots == SumSpots(sra_runs, idx)
       IN /\ queried' = Append(queried, i)
          /\ sra_runs' = MarkDone(sra_runs, idx)
          /\ summed' = Append(summed, [at |-> i, run_id |-> run.run_id, idx |-> idx,
                                       sra_spots |-> sra_spots, spots |-> run.spots])
          /\ IF run.spots # sra_spots
             THEN /\ nerror' = nerror + 1
                  /\ exit_status' = <<SysExitStatus>>
                  /\ pc' = "halted"
                  /\ i' = i
             ELSE /\ i' = i + 1
                  /\ UNCHANGED <<nerror, exit_status, pc>>
    /\ UNCHANGED <<storeVars, fastqVars, updateVars, fetchVars, nwarn, missing>>

CheckRunsEnd ==
    /\ pc = "check_runs"
    /\ i > Len(sra_runs)
    /\ missing' = MissingRuns(sra_runs)
    /\ pc' = "check_runs_returned"
    /\ UNCHANGED <<storeVars, fastqVars, updateVars, fetchVars, sra_runs, queried, summed, i, nwarn,
                   nerror, exit_status>>

\* main after the loop over the projects: prints the totals and returns None,
\* and sys.exit(main()) ends the process.
\* The exit status of sys.exit(None).
MainExitStatus == 0

MainEnd ==
    /\ pc = "check_runs_returned"
    /\ pc' = "exited"
    /\ exit_status' = <<MainExitStatus>>
    /\ UNCHANGED <<storeVars, fastqVars, updateVars, fetchVars, checkVars, i, nwarn, nerror>>

InitCheck ==
    /\ replicates = <<>>
    /\ runs \in LinkedRunTables(MaxLocalRuns)
    /\ samples = <<>>
    /\ queries = <<>>
    /\ warnings = <<>>
    /\ posted = <<>>
    /\ dry = FALSE
    /\ total_nwarn = 0
    /\ docs = <<>>
    /\ import_runs = {}
    /\ srp_title = None
    /\ project = None
    /\ requests = <<>>
    /\ returned = None
    /\ path_seq = <<>>
    /\ fqf = <<>>
    /\ info = None
    /\ nread = 0
    /\ max_len = 0
    /\ get_spots = FALSE
    /\ walk = <<>>
    /\ fastq_exts = <<>>
    /\ fastq_fns = <<>>
    /\ fastqs = <<>>
    /\ valid = None
    /\ file_name = <<>>
    /\ error = None
    /\ sra_runs \in Pools(MaxPool)
    /\ pc = "check_runs_begin"
    /\ i = 0
    /\ nwarn = 0
    /\ nerror = 0
    /\ exit_status = NotExited
    /\ missing = <<>>
    /\ queried = <<>>
    /\ summed = <<>>

NextCheck ==
    \/ CheckRunsBegin
    \/ CheckRunsSkip
    \/ CheckRunsNone
    \/ CheckRunsSeveral
    \/ CheckRunsOne
    \/ CheckRunsEnd
    \/ MainEnd

SpecCheck == InitCheck /\ [][NextCheck]_vars

-----------------------------------------------------------------------------
(* check_replicates *)

MaxCheckSamples == 2
MaxCheckReplicates == 2

Digit == <<"1", "2", "3", "4", "5">>
Letter == <<"A", "B", "C", "D", "E">>

SRS1 == <<"S", "1">>
SRS10 == <<"S", "1", "0">>
SRS2 == <<"S", "2">>
PUB1 == <<"P", "1">>
PUB2 == <<"P", "2">>

\* config['publication_ref']
PublicationRef == PUB1

\* The runs of the k-th Sample of a project: one run, or two.
RunRefAt(k, m) == <<"R", Digit[k], Digit[m]>>
SampleRuns(k) ==
    {<<[ref |-> RunRefAt(k, 1), spots |-> 150]>>,
     <<[ref |-> RunRefAt(k, 1), spots |-> 150], [ref |-> RunRefAt(k, 2), spots |-> 140]>>}

CheckSamples(n) ==
    UNION {{[k \in 1..m |-> [ref |-> f[k].ref, label |-> f[k].ref, runs |-> f[k].runs]] :
            f \in {g \in [1..m -> [ref : {SRS1, SRS10, SRS2}, runs : UNION {SampleRuns(k) : k \in 1..m}]] :
                     \A k \in 1..m : g[k].runs \in SampleRuns(k)}} : m \in 1..n}

\* Tables of at most n replicates; replicate_id is the row's position.
ReplicateTables(n, sra_refs, publication_refs) ==
    UNION {{[k \in 1..m |-> [replicate_id |-> k, replicate_ref |-> Letter[k],
                             sra_ref |-> f[k].sra_ref,
                             publication_ref |-> f[k].publication_ref]] :
            f \in [1..m -> [sra_ref : sra_refs, publication_ref : publication_refs]]} :
           m \in 0..n}

\* dbl.post('replicate', sra_ref FUZZY ...)
SearchReplicates(ref) == SelectSeq(replicates, LAMBDA r : Fuzzy(r.sra_ref, ref))

TagRuns_First(sample_runs, replicate) ==
    [k \in 1..Len(sample_runs) |->
       IF k = 1
       THEN [ref |-> sample_runs[k].ref, spots |-> sample_runs[k].spots,
             replicate_ref |-> replicate.replicate_ref]
       ELSE sample_runs[k]]

\* sra_run['replicate_ref'] = replicate['replicate_ref'] for the runs of a Sample.
TagRuns(sample_runs, replicate) ==
    [k \in 1..Len(sample_runs) |->
       [ref |-> sample_runs[k].ref, spots |-> sample_runs[k].spots,
        replicate_ref |-> replicate.replicate_ref]]

CheckReplicatesBegin ==
    /\ pc = "check_replicates_begin"
    /\ sra_runs' = <<>>
    /\ nwarn' = 0
    /\ i' = 1
    /\ pc' = "check_replicates"
    /\ UNCHANGED <<storeVars, fastqVars, updateVars, fetchVars, missing, queried, summed, nerror,
                   exit_status>>

CheckReplicatesNone ==
    /\ pc = "check_replicates"
    /\ i <= Len(samples)
    /\ Len(SearchReplicates(samples[i].ref)) = 0
    /\ nwarn' = nwarn + 1
    /\ i' = i + 1
    /\ UNCHANGED <<storeVars, fastqVars, updateVars, fetchVars, checkVars, pc, nerror, exit_status>>

CheckReplicatesSeveral ==
    /\ pc = "check_replicates"
    /\ i <= Len(samples)
    /\ Len(SearchReplicates(samples[i].ref)) > 1
    /\ nwarn' = nwarn + 1
    /\ i' = i + 1
    /\ UNCHANGED <<storeVars, fastqVars, updateVars, fetchVars, checkVars, pc, nerror, exit_status>>

CheckReplicatesTag ==
    /\ pc = "check_replicates"
    /\ i <= Len(samples)
    /\ Len(SearchReplicates(samples[i].ref)) = 1
    /\ LET replicate == SearchReplicates(samples[i].ref)[1]
       IN /\ replicate.publication_ref = PublicationRef
          /\ samples' = [samples EXCEPT ![i].runs = TagRuns(samples[i].runs, replicate)]
          /\ sra_runs' = sra_runs \o TagRuns(samples[i].runs, replicate)
    /\ i' = i + 1
    /\ UNCHANGED <<storeVars, fastqVars, queries, warnings, posted, dry, total_nwarn, fetchVars,
                   missing, queried, summed, pc, nwarn, nerror, exit_status>>

CheckReplicatesOtherPublication ==
    /\ pc = "check_replicates"
    /\ i <= Len(samples)
    /\ Len(SearchReplicates(samples[i].ref)) = 1
    /\ SearchReplicates(samples[i].ref)[1].publication_ref # PublicationRef
    /\ nwarn' = nwarn + 1
    /\ i' = i + 1
    /\ UNCHANGED <<storeVars, fastqVars, updateVars, fetchVars, checkVars, pc, nerror, exit_status>>

CheckReplicatesEnd ==
    /\ pc = "check_replicates"
    /\ i > Len(samples)
    /\ pc' = "check_replicates_returned"
    /\ UNCHANGED <<storeVars, fastqVars, updateVars, fetchVars, checkVars, i, nwarn, nerror, exit_status>>

InitReplicates ==
    /\ replicates \in ReplicateTables(MaxCheckReplicates, {None, SRS1, SRS10},
                                      {None, PUB1, PUB2})
    /\ runs = <<>>
    /\ samples \in CheckSamples(MaxCheckSamples)
    /\ queries = <<>>
    /\ warnings = <<>>
    /\ posted = <<>>
    /\ dry = FALSE
    /\ total_nwarn = 0
    /\ docs = <<>>
    /\ import_runs = {}
    /\ srp_title = None
    /\ project = None
    /\ requests = <<>>
    /\ returned = None
    /\ path_seq = <<>>
    /\ fqf = <<>>
    /\ info = None
    /\ nread = 0
    /\ max_len = 0
    /\ get_spots = FALSE
    /\ walk = <<>>
    /\ fastq_exts = <<>>
    /\ fastq_fns = <<>>
    /\ fastqs = <<>>
    /\ valid = None
    /\ file_name = <<>>
    /\ error = None
    /\ sra_runs = <<>>
    /\ pc = "check_replicates_begin"
    /\ i = 0
    /\ nwarn = 0
    /\ nerror = 0
    /\ exit_status = NotExited
    /\ missing = <<>>
    /\ queried = <<>>
    /\ summed = <<>>

NextReplicates ==
    \/ CheckReplicatesBegin
    \/ CheckReplicatesNone
    \/ CheckReplicatesSeveral
    \/ CheckReplicatesTag
    \/ CheckReplicatesOtherPublication
    \/ CheckReplicatesEnd

SpecReplicates == InitReplicates /\ [][NextReplicates]_vars

-----------------------------------------------------------------------------
(* search_replicate_ref, update_ref and the posting of the queued edits *)

MaxUpdateSamples == 2
MaxUpdateRuns == 2

SRS9 == <<"S", "9">>
SRR9 == <<"R", "9">>
MultiplexPrefix == <<"Raw multiplex:">>

\* str.startswith
StartsWith(s, prefix) ==
    Len(s) >= Len(prefix) /\ SubSeq(s, 1, Len(prefix)) = prefix

\* The Samples of a project, by name, attributes and the spots of the runs:
\* replicate A is in the store, replicate B is not.
SampleShapes ==
    {[name |-> <<"s">>, attributes |-> <<<<"replicate_ref", "A">>>>, spots |-> <<200>>],
     [name |-> <<"s">>, attributes |-> <<<<"replicate_ref", "A">>>>, spots |-> <<200, 200>>],
     [name |-> <<"s">>, attributes |-> <<<<"strain", "x">>, <<"replicate_ref", "A">>>>,
      spots |-> <<100, 300>>],
     [name |-> <<"s">>, attributes |-> <<<<"strain", "x">>>>, spots |-> <<200>>],
     [name |-> <<"s">>, attributes |-> <<<<"replicate_ref", "B">>>>, spots |-> <<200>>],
     [name |-> <<"Raw multiplex:", "m">>, attributes |-> <<<<"replicate_ref", "A">>>>,
      spots |-> <<200>>],
     [name |-> <<"Raw multiplex:", "m">>, attributes |-> <<<<"replicate_ref", "B">>>>,
      spots |-> <<200>>],
     [name |-> <<"Raw multiplex:", "m">>, attributes |-> <<>>, spots |-> <<200>>]}

UpdateSamples(n) ==
    UNION {{[k \in 1..m |->
               [ref |-> <<"S", Digit[k]>>, name |-> f[k].name, label |-> f[k].name,
                attributes |-> f[k].attributes,
                runs |-> [x \in 1..Len(f[k].spots) |->
                            [ref |-> RunRefAt(k, x), spots |-> f[k].spots[x]]]]] :
            f \in [1..m -> SampleShapes]} : m \in 1..n}

\* The rows of table run: runs of replicate A, linked or not, and a run of B.
UpdateRunRows ==
    [replicate_ref : {"A"}, sra_ref : {None, SRR9}, spots : {100, 200}]
      \cup {[replicate_ref |-> "B", sra_ref |-> None, spots |-> 200]}

UpdateRunTables(n) ==
    UNION {{[k \in 1..m |-> [run_id |-> k, replicate_ref |-> f[k].replicate_ref,
                             sra_ref |-> f[k].sra_ref, spots |-> f[k].spots]] :
            f \in [1..m -> UpdateRunRows]} : m \in 0..n}

\* The value search_replicate_ref stores: the last attribute tagged replicate_ref.
RECURSIVE LastReplicateRef(_, _)
LastReplicateRef(attributes, k) ==
    IF k = 0 THEN None
    ELSE IF attributes[k][1] = "replicate_ref" THEN <<attributes[k][2]>>
    ELSE LastReplicateRef(attributes, k - 1)

HasReplicateRef(sample) == "replicate_ref" \in DOMAIN sample

WithReplicateRef(sample, v) ==
    [x \in DOMAIN sample \cup {"replicate_ref"} |->
       IF x = "replicate_ref" THEN v ELSE sample[x]]

\* search_replicate_ref: sets sample['replicate_ref'] where the tag is found,
\* counts and prints one warning for every other Sample.
SearchReplicateRef ==
    /\ pc = "search_replicate_ref"
    /\ LET found(k) == LastReplicateRef(samples[k].attributes, Len(samples[k].attributes)) # None
           value(k) == LastReplicateRef(samples[k].attributes, Len(samples[k].attributes))[1]
           unfound == SelectSeq([k \in 1..Len(samples) |-> k], LAMBDA k : ~found(k))
       IN /\ samples' = [k \in 1..Len(samples) |->
                           IF found(k) THEN WithReplicateRef(samples[k], value(k))
                           ELSE samples[k]]
          /\ warnings' = warnings \o
                [x \in 1..Len(unfound) |-> [sample |-> unfound[x], sra_run |-> 0, kind |-> "no_id"]]
          /\ total_nwarn' = total_nwarn + Len(unfound)
    /\ pc' = "update_ref_begin"
    /\ UNCHANGED <<storeVars, fastqVars, queries, posted, dry, checkVars, fetchVars, i, nwarn, nerror,
                   exit_status>>

\* dbl.get('replicate/get-ref/' + ref)[0]
GetReplicateRef(ref) == SelectSeq(replicates, LAMBDA r : r.replicate_ref = ref)

\* dbl.post('run', replicate_ref EQUAL ...)
SearchRunsOfReplicate(ref) == SelectSeq(runs, LAMBDA r : Equal(r.replicate_ref, ref))

RECURSIVE FirstEligible_IgnoreLinked(_, _, _)
FirstEligible_IgnoreLinked(local, spots, k) ==
    IF k > Len(local) THEN 0
    ELSE IF local[k].spots = spots THEN k
    ELSE FirstEligible_IgnoreLinked(local, spots, k + 1)

\* The inner loop over the local runs: the position at which it breaks (the
\* first run without sra_ref and with the spots of the external run), or 0.
RECURSIVE FirstEligible(_, _, _)
FirstEligible(local, spots, k) ==
    IF k > Len(local) THEN 0
    ELSE IF local[k].sra_ref = None /\ local[k].spots = spots THEN k
    ELSE FirstEligible(local, spots, k + 1)

\* The outcome of the loop for one external run, `already` never set.
RunOutcome_NoConflict(local, sra_run) ==
    LET f == FirstEligible(local, sra_run.spots, 1)
    IN IF f # 0 THEN [kind |-> "edit", run_id |-> local[f].run_id]
       ELSE [kind |-> "no_run", run_id |-> 0]

\* The outcome of the loop for one external run.
RunOutcome(local, sra_run) ==
    LET f == FirstEligible(local, sra_run.spots, 1)
    IN IF f # 0 THEN [kind |-> "edit", run_id |-> local[f].run_id]
       ELSE IF \E k \in 1..Len(local) : local[k].sra_ref # None
            THEN [kind |-> "run_attached", run_id |-> 0]
            ELSE [kind |-> "no_run", run_id |-> 0]

\* The loop over the external runs of Sample k from its m-th run on: the edits
\* queued and the warnings printed.  An edit keeps the Sample and the run it
\* was queued for.
RECURSIVE RunResults(_, _, _, _)
RunResults(k, local, ext, m) ==
    IF m > Len(ext) THEN [queries |-> <<>>, warnings |-> <<>>]
    ELSE LET o == RunOutcome(local, ext[m])
             rest == RunResults(k, local, ext, m + 1)
         IN IF o.kind = "edit"
            THEN [queries |-> <<[table |-> "run", id |-> o.run_id, field |-> "sra_ref",
                                 value |-> ext[m].ref, sample |-> k, sra_run |-> m]>>
                              \o rest.queries,
                  warnings |-> rest.warnings]
            ELSE [queries |-> rest.queries,
                  warnings |-> <<[sample |-> k, sra_run |-> m, kind |-> o.kind]>>
                               \o rest.warnings]

UpdateRefBegin ==
    /\ pc = "update_ref_begin"
    /\ queries' = <<>>
    /\ nwarn' = 0
    /\ i' = 1
    /\ pc' = "update_ref"
    /\ UNCHANGED <<storeVars, fastqVars, samples, warnings, posted, dry, total_nwarn, checkVars,
                   fetchVars, nerror, exit_status>>

UpdateRefMultiplex ==
    /\ pc = "update_ref"
    /\ i <= Len(samples)
    /\ StartsWith(samples[i].name, MultiplexPrefix)
    /\ i' = i + 1
    /\ UNCHANGED <<storeVars, fastqVars, updateVars, checkVars, fetchVars, pc, nwarn, nerror, exit_status>>

UpdateRefNoRef ==
    /\ pc = "update_ref"
    /\ i <= Len(samples)
    /\ ~StartsWith(samples[i].name, MultiplexPrefix)
    /\ ~HasReplicateRef(samples[i])
    /\ i' = i + 1
    /\ UNCHANGED <<storeVars, fastqVars, updateVars, checkVars, fetchVars, pc, nwarn, nerror, exit_status>>

UpdateRefNotFound_Silent ==
    /\ pc = "update_ref"
    /\ i <= Len(samples)
    /\ ~StartsWith(samples[i].name, MultiplexPrefix)
    /\ HasReplicateRef(samples[i])
    /\ Len(GetReplicateRef(samples[i].replicate_ref)) = 0
    /\ i' = i + 1
    /\ UNCHANGED <<storeVars, fastqVars, updateVars, checkVars, fetchVars, pc, nwarn, nerror, exit_status>>

UpdateRefNotFound ==
    /\ pc = "update_ref"
    /\ i <= Len(samples)
    /\ ~StartsWith(samples[i].name, MultiplexPrefix)
    /\ HasReplicateRef(samples[i])
    /\ Len(GetReplicateRef(samples[i].replicate_ref)) = 0
    /\ warnings' = Append(warnings, [sample |-> i, sra_run |-> 0, kind |-> "replicate_not_found"])
    /\ nwarn' = nwarn + 1
    /\ i' = i + 1
    /\ UNCHANGED <<storeVars, fastqVars, samples, queries, posted, dry, total_nwarn, checkVars, fetchVars,
                   pc, nerror, exit_status>>

UpdateRefFound ==
    /\ pc = "update_ref"
    /\ i <= Len(samples)
    /\ ~StartsWith(samples[i].name, MultiplexPrefix)
    /\ HasReplicateRef(samples[i])
    /\ Len(GetReplicateRef(samples[i].replicate_ref)) > 0
    /\ LET replicate == GetReplicateRef(samples[i].replicate_ref)[1]
           sra_edit == IF replicate.sra_ref = None
                       THEN <<[table |-> "replicate", id |-> replicate.replicate_id,
                               field |-> "sra_ref", value |-> samples[i].ref,
                               sample |-> i, sra_run |-> 0]>>
                       ELSE <<>>
           sra_warn == IF replicate.sra_ref = None THEN <<>>
                       ELSE <<[sample |-> i, sra_run |-> 0, kind |-> "replicate_attached"]>>
           pub_edit == IF replicate.publication_ref = None
                       THEN <<[table |-> "replicate", id |-> replicate.replicate_id,
                               field |-> "publication_ref", value |-> PublicationRef,
                               sample |-> i, sra_run |-> 0]>>
                       ELSE <<>>
           res == RunResults(i, SearchRunsOfReplicate(replicate.replicate_ref),
                             samples[i].runs, 1)
       IN /\ queries' = queries \o sra_edit \o pub_edit \o res.queries
          /\ warnings' = warnings \o sra_warn \o res.warnings
          /\ nwarn' = nwarn + Len(sra_warn) + Len(res.warnings)
    /\ i' = i + 1
    /\ UNCHANGED <<storeVars, fastqVars, samples, posted, dry, total_nwarn, checkVars, fetchVars, pc,
                   nerror, exit_status>>

\* update_ref returns (queries, nwarn); main adds nwarn to its own.
UpdateRefEnd ==
    /\ pc = "update_ref"
    /\ i > Len(samples)
    /\ total_nwarn' = total_nwarn + nwarn
    /\ pc' = "update_ref_returned"
    /\ UNCHANGED <<storeVars, fastqVars, samples, queries, warnings, posted, dry, checkVars, fetchVars,
                   i, nwarn, nerror, exit_status>>

\* The store after dbl.post('<table>/edit/<id>', {field: value}) for the edits
\* of qs from the k-th on, and the writes made: the row, the field, its value
\* before and after.
RECURSIVE PostAll(_, _, _, _, _)
PostAll(reps, rns, qs, k, log) ==
    IF k > Len(qs) THEN [replicates |-> reps, runs |-> rns, posted |-> log]
    ELSE LET q == qs[k]
         IN IF q.table = "replicate"
            THEN PostAll([reps EXCEPT ![q.id][q.field] = q.value], rns, qs, k + 1,
                         Append(log, [table |-> q.table, id |-> q.id, field |-> q.field,
                                      old |-> reps[q.id][q.field], new |-> q.value]))
            ELSE PostAll(reps, [rns EXCEPT ![q.id][q.field] = q.value], qs, k + 1,
                         Append(log, [table |-> q.table, id |-> q.id, field |-> q.field,
                                      old |-> rns[q.id][q.field], new |-> q.value]))

\* main: for q in queries: if not dry: dbl.post(q[0], json=[q[1]])
\* The queued edits posted whatever config['dry'] holds.
MainPost_IgnoresDry ==
    /\ pc = "update_ref_returned"
    /\ LET after == PostAll(replicates, runs, queries, 1, posted)
       IN /\ replicates' = after.replicates
          /\ runs' = after.runs
          /\ posted' = after.posted
    /\ pc' = "updated"
    /\ UNCHANGED <<fastqVars, samples, queries, warnings, dry, total_nwarn, checkVars, fetchVars, i,
                   nwarn, nerror, exit_status>>

MainPost ==
    /\ pc = "update_ref_returned"
    /\ LET after == IF dry THEN [replicates |-> replicates, runs |-> runs, posted |-> posted]
                    ELSE PostAll(replicates, runs, queries, 1, posted)
       IN /\ replicates' = after.replicates
          /\ runs' = after.runs
          /\ posted' = after.posted
    /\ pc' = "updated"
    /\ UNCHANGED <<fastqVars, samples, queries, warnings, dry, total_nwarn, checkVars, fetchVars, i,
                   nwarn, nerror, exit_status>>

InitUpdate ==
    /\ replicates \in {t \in ReplicateTables(1, {None, SRS9}, {None, PUB2}) : Len(t) = 1}
    /\ runs \in UpdateRunTables(MaxUpdateRuns)
    /\ samples \in UpdateSamples(MaxUpdateSamples)
    /\ queries = <<>>
    /\ warnings = <<>>
    /\ posted = <<>>
    /\ dry = FALSE
    /\ total_nwarn = 0
    /\ docs = <<>>
    /\ import_runs = {}
    /\ srp_title = None
    /\ project = None
    /\ requests = <<>>
    /\ returned = None
    /\ path_seq = <<>>
    /\ fqf = <<>>
    /\ info = None
    /\ nread = 0
    /\ max_len = 0
    /\ get_spots = FALSE
    /\ walk = <<>>
    /\ fastq_exts = <<>>
    /\ fastq_fns = <<>>
    /\ fastqs = <<>>
    /\ valid = None
    /\ file_name = <<>>
    /\ error = None
    /\ sra_runs = <<>>
    /\ pc = "search_replicate_ref"
    /\ i = 0
    /\ nwarn = 0
    /\ nerror = 0
    /\ exit_status = NotExited
    /\ missing = <<>>
    /\ queried = <<>>
    /\ summed = <<>>

NextUpdate ==
    \/ SearchReplicateRef
    \/ UpdateRefBegin
    \/ UpdateRefMultiplex
    \/ UpdateRefNoRef
    \/ UpdateRefNotFound
    \/ UpdateRefFound
    \/ UpdateRefEnd
    \/ MainPost

SpecUpdate == InitUpdate /\ [][NextUpdate]_vars

-----------------------------------------------------------------------------
(* parse_sra_xml and get_samples_infos *)

MaxDocs == 2

\* The characters of the refs, in code point order.
CharOrder ==
    <<",", ".", "0", "1", "2", "3", "4", "5", "6", "7", "8", "9", "A", "B", "I", "L", "P", "R",
      "S", "T", "_", "a", "b", "f", "q", "r", "s", "t", "x">>
CharRank(c) == CHOOSE n \in 1..Len(CharOrder) : CharOrder[n] = c

\* Python's < on strings.
RECURSIVE StrLess(_, _)
StrLess(a, b) ==
    IF Len(b) = 0 THEN FALSE
    ELSE IF Len(a) = 0 THEN TRUE
    ELSE IF a[1] = b[1] THEN StrLess(Tail(a), Tail(b))
    ELSE CharRank(a[1]) < CharRank(b[1])

\* int() of a string of decimal digits.
RECURSIVE ParseInt(_)
ParseInt(s) ==
    IF Len(s) = 0 THEN 0
    ELSE 10 * ParseInt(SubSeq(s, 1, Len(s) - 1)) + (CharRank(s[Len(s)]) - CharRank("0"))

\* Python's < on tuples of strings.
RECURSIVE KeyLess(_, _)
KeyLess(a, b) ==
    IF Len(b) = 0 THEN FALSE
    ELSE IF Len(a) = 0 THEN TRUE
    ELSE IF a[1] = b[1] THEN KeyLess(Tail(a), Tail(b))
    ELSE StrLess(a[1], b[1])

\* Sorting of <<key, value>> pairs by key: stable, ascending.
RECURSIVE InsertSorted(_, _)
InsertSorted(sorted, x) ==
    IF Len(sorted) = 0 THEN <<x>>
    ELSE IF KeyLess(x[1], sorted[Len(sorted)][1])
         THEN Append(InsertSorted(SubSeq(sorted, 1, Len(sorted) - 1), x), sorted[Len(sorted)])
         ELSE Append(sorted, x)

RECURSIVE SortPairs(_)
SortPairs(pairs) ==
    IF Len(pairs) = 0 THEN <<>>
    ELSE InsertSorted(SortPairs(SubSeq(pairs, 1, Len(pairs) - 1)), pairs[Len(pairs)])

\* The values of sorted pairs.
Values(pairs) == [k \in 1..Len(pairs) |-> pairs[k][2]]

\* dict | dict
Merge(f, g) == [x \in DOMAIN f \cup DOMAIN g |-> IF x \in DOMAIN g THEN g[x] ELSE f[x]]

\* {c.get('index'): c.get('count') for c in Statistics}: the last column of an index.
StatOf(stats, index) ==
    LET cols == {k \in 1..Len(stats) : stats[k].index = index}
    IN stats[CHOOSE k \in cols : \A x \in cols : x <= k].count

HasStat(stats, index) == \E k \in 1..Len(stats) : stats[k].index = index

\* sra_root.find('.//PLATFORM/ILLUMINA/INSTRUMENT_MODEL'): the first in the
\* document, the experiment's or else the first run's.
RECURSIVE FirstRunModel(_, _)
FirstRunModel(doc_runs, k) ==
    IF k > Len(doc_runs) THEN None
    ELSE IF doc_runs[k].illumina # None THEN doc_runs[k].illumina
    ELSE FirstRunModel(doc_runs, k + 1)

DocIllumina(doc) ==
    IF doc.illumina # None THEN doc.illumina ELSE FirstRunModel(doc.runs, 1)

\* The platform before the loop over the runs.
DocPlatform(doc) ==
    IF DocIllumina(doc) # None THEN DocIllumina(doc)
    ELSE IF doc.pacbio # None THEN doc.pacbio
    ELSE None

\* The platform variable after the k-th run of the loop.
RECURSIVE PlatformAt(_, _)
PlatformAt(doc, k) ==
    IF k = 0 THEN DocPlatform(doc)
    ELSE IF doc.runs[k].illumina # None THEN doc.runs[k].illumina
    ELSE IF doc.root_pacbio # None THEN doc.root_pacbio
    ELSE PlatformAt(doc, k - 1)

\* The run dict with paired taken from the library layout of the document.
ParseRun_LayoutPaired(doc, k) ==
    LET sra_run == doc.runs[k]
        run == [ref |-> sra_run.accession, spots |-> ParseInt(sra_run.total_spots),
                paired |-> (doc.layout = "PAIRED"), platform |-> PlatformAt(doc, k)]
        run1 == IF HasStat(sra_run.stats, "0")
                THEN Merge(run, [nread1 |-> ParseInt(StatOf(sra_run.stats, "0"))])
                ELSE run
    IN IF HasStat(sra_run.stats, "1")
       THEN Merge(run1, [nread2 |-> ParseInt(StatOf(sra_run.stats, "1"))])
       ELSE run1

\* The run dict built for the k-th RUN element.
ParseRun(doc, k) ==
    LET sra_run == doc.runs[k]
        run == [ref |-> sra_run.accession, spots |-> ParseInt(sra_run.total_spots),
                paired |-> FALSE, platform |-> PlatformAt(doc, k)]
        run1 == IF HasStat(sra_run.stats, "0")
                THEN Merge(run, [nread1 |-> ParseInt(StatOf(sra_run.stats, "0"))])
                ELSE run
    IN IF HasStat(sra_run.stats, "1")
       THEN Merge(run1, [nread2 |-> ParseInt(StatOf(sra_run.stats, "1")), paired |-> TRUE])
       ELSE run1

\* key=lambda x: x['ref']
RunKey(x) == <<x.ref>>

\* sample['runs'] left in the order of the document.
SortRuns_Unsorted(list) == list

\* sample['runs'].sort(key=...)
SortRuns(list) == Values(SortPairs([k \in 1..Len(list) |-> <<RunKey(list[k]), list[k]>>]))

\* sample['runs'] on return: the runs kept by the filter, sorted by ref.
ParsedRuns(doc, filter) ==
    LET all == [k \in 1..Len(doc.runs) |-> ParseRun(doc, k)]
        kept == SelectSeq(all, LAMBDA r : filter = {} \/ r.ref \in filter)
    IN SortRuns(kept)

StudyMatches(doc, srp) == srp = doc.study_accession \/ srp = doc.study_alias

\* The Sample dict on the path that parses the document.  (sra_url, sra_size
\* and sra_md5 of a run are not modelled.)
ParsedSample(doc, filter) ==
    LET s0 == [runs |-> ParsedRuns(doc, filter)]
        s1 == IF doc.has_sample
              THEN Merge(s0, [ref |-> doc.sample_accession, name |-> doc.sample_alias])
              ELSE s0
        s2 == IF doc.sample_title # None THEN Merge(s1, [label |-> doc.sample_title])
              ELSE IF "name" \in DOMAIN s1 THEN Merge(s1, [label |-> s1.name])
              ELSE s1
        paired == IF doc.layout = "SINGLE" THEN <<FALSE>>
                  ELSE IF doc.layout = "PAIRED" THEN <<TRUE>>
                  ELSE None
    IN Merge(s2, [paired |-> paired, attributes |-> doc.attributes])

\* parse_sra_xml: what it returns, a dict on a study mismatch and else a tuple.
ParseSraXml(doc, srp, filter) ==
    IF srp # None /\ ~StudyMatches(doc, srp)
    THEN [kind |-> "dict", value |-> [runs |-> <<>>]]
    ELSE [kind |-> "tuple", value |-> <<doc.study_title, ParsedSample(doc, filter)>>]

\* The values a two-target assignment iterates over: the items of a tuple,
\* the keys of a dict.
Iterated(ret) ==
    IF ret.kind = "tuple" THEN Len(ret.value) ELSE Cardinality(DOMAIN ret.value)

\* title, sample = ...: raises ValueError unless two values are iterated.
Unpacks(ret) == Iterated(ret) = 2

\* The requested project.
SRP1 == <<"S", "R", "P", "1">>
SRP2 == <<"S", "R", "P", "2">>
Srp == SRP1

\* key=lambda x: (x['ref'], x['runs'][0]['ref'])
SampleKey(x) == <<x.ref, x.runs[1].ref>>

\* samples left in the order of the identifiers.
SortSamples_Unsorted(list) == list

\* samples.sort(key=...)
SortSamples(list) ==
    Values(SortPairs([k \in 1..Len(list) |-> <<SampleKey(list[k]), list[k]>>]))

GetSamplesInfosBegin ==
    /\ pc = "get_samples_infos_begin"
    /\ samples' = <<>>
    /\ srp_title' = None
    /\ requests' = <<"search">>
    /\ i' = 1
    /\ pc' = "get_samples_infos"
    /\ UNCHANGED <<storeVars, fastqVars, queries, warnings, posted, dry, total_nwarn, checkVars, docs, returned,
                   import_runs, project, nwarn, nerror, exit_status>>

\* One identifier whose document parses: fetch, parse, keep a Sample with runs, pause.
GetSamplesInfosAppend ==
    /\ pc = "get_samples_infos"
    /\ i <= Len(docs)
    /\ LET ret == ParseSraXml(docs[i], Srp, import_runs)
       IN /\ Unpacks(ret)
          /\ Len(ret.value[2].runs) > 0
          /\ srp_title' = IF ret.value[1] # None THEN ret.value[1] ELSE srp_title
          /\ samples' = Append(samples, ret.value[2])
    /\ requests' = requests \o <<"fetch", "sleep">>
    /\ i' = i + 1
    /\ UNCHANGED <<storeVars, fastqVars, queries, warnings, posted, dry, total_nwarn, checkVars, docs, returned,
                   import_runs, project, pc, nwarn, nerror, exit_status>>

\* One identifier whose document parses to a Sample without runs.
GetSamplesInfosEmpty ==
    /\ pc = "get_samples_infos"
    /\ i <= Len(docs)
    /\ LET ret == ParseSraXml(docs[i], Srp, import_runs)
       IN /\ Unpacks(ret)
          /\ Len(ret.value[2].runs) = 0
          /\ srp_title' = IF ret.value[1] # None THEN ret.value[1] ELSE srp_title
    /\ requests' = requests \o <<"fetch", "sleep">>
    /\ i' = i + 1
    /\ UNCHANGED <<storeVars, fastqVars, updateVars, checkVars, docs, returned, import_runs, project, pc, nwarn,
                   nerror, exit_status>>

\* One identifier for which the assignment of line 34 raises ValueError.
GetSamplesInfosRaise ==
    /\ pc = "get_samples_infos"
    /\ i <= Len(docs)
    /\ ~Unpacks(ParseSraXml(docs[i], Srp, import_runs))
    /\ requests' = Append(requests, "fetch")
    /\ pc' = "raised"
    /\ UNCHANGED <<storeVars, fastqVars, updateVars, checkVars, docs, returned, import_runs, srp_title, project,
                   i, nwarn, nerror, exit_status>>

GetSamplesInfosEnd ==
    /\ pc = "get_samples_infos"
    /\ i > Len(docs)
    /\ samples' = SortSamples(samples)
    /\ project' = [title |-> srp_title, samples |-> SortSamples(samples)]
    /\ pc' = "get_samples_infos_returned"
    /\ UNCHANGED <<storeVars, fastqVars, queries, warnings, posted, dry, total_nwarn, checkVars, docs, returned,
                   import_runs, srp_title, requests, i, nwarn, nerror, exit_status>>

\* The documents of the archive: of the requested study by accession or by
\* alias, or of another study; with no run, one run or two runs out of order;
\* the runs of a later document have the lower refs.
DocRuns(k) ==
    {<<>>,
     <<[accession |-> RunRefAt(k, 1), total_spots |-> <<"1", "5", "0">>, illumina |-> None,
        stats |-> <<[index |-> "0", count |-> <<"1", "5", "0">>]>>]>>,
     <<[accession |-> RunRefAt(k, 2), total_spots |-> <<"1", "4", "0">>, illumina |-> None,
        stats |-> <<[index |-> "0", count |-> <<"1", "4", "0">>],
                    [index |-> "1", count |-> <<"1", "4", "0">>]>>],
       [accession |-> RunRefAt(k, 1), total_spots |-> <<"1", "5", "0">>, illumina |-> None,
        stats |-> <<[index |-> "0", count |-> <<"1", "5", "0">>]>>]>>}

Studies ==
    {[accession |-> SRP1, alias |-> <<"T", "1">>],
     [accession |-> SRP2, alias |-> SRP1],
     [accession |-> SRP2, alias |-> <<"T", "2">>]}

Docs(n) ==
    UNION {{[k \in 1..m |->
               [study_accession |-> f[k].study.accession, study_alias |-> f[k].study.alias,
                study_title |-> f[k].study_title,
                has_sample |-> TRUE, sample_accession |-> f[k].sample,
                sample_alias |-> <<"s">>, sample_title |-> None, layout |-> "SINGLE",
                illumina |-> <<"T">>, pacbio |-> None, root_pacbio |-> None,
                attributes |-> <<>>, runs |-> f[k].runs]] :
            f \in {g \in [1..m -> [study : Studies, study_title : {None, <<"T">>},
                                   sample : {SRS1, SRS2},
                                   runs : UNION {DocRuns(k) : k \in 1..m}]] :
                     \A k \in 1..m : g[k].runs \in DocRuns(m + 1 - k)}} : m \in 0..n}

InitFetch ==
    /\ replicates = <<>>
    /\ runs = <<>>
    /\ samples = <<>>
    /\ queries = <<>>
    /\ warnings = <<>>
    /\ posted = <<>>
    /\ dry = FALSE
    /\ total_nwarn = 0
    /\ docs \in Docs(MaxDocs)
    /\ import_runs \in {{}, {RunRefAt(1, 1)}}
    /\ srp_title = None
    /\ project = None
    /\ requests = <<>>
    /\ returned = None
    /\ path_seq = <<>>
    /\ fqf = <<>>
    /\ info = None
    /\ nread = 0
    /\ max_len = 0
    /\ get_spots = FALSE
    /\ walk = <<>>
    /\ fastq_exts = <<>>
    /\ fastq_fns = <<>>
    /\ fastqs = <<>>
    /\ valid = None
    /\ file_name = <<>>
    /\ error = None
    /\ sra_runs = <<>>
    /\ pc = "get_samples_infos_begin"
    /\ i = 0
    /\ nwarn = 0
    /\ nerror = 0
    /\ exit_status = NotExited
    /\ missing = <<>>
    /\ queried = <<>>
    /\ summed = <<>>

NextFetch ==
    \/ GetSamplesInfosBegin
    \/ GetSamplesInfosAppend
    \/ GetSamplesInfosEmpty
    \/ GetSamplesInfosRaise
    \/ GetSamplesInfosEnd

SpecFetch == InitFetch /\ [][NextFetch]_vars

-----------------------------------------------------------------------------
(* parse_sra_xml, one call *)

MaxParseRuns == 2

\* The Statistics columns of a RUN element: none, one of the two or both.
StatColumns ==
    {<<>>,
     <<[index |-> "0", count |-> <<"1", "5", "0">>]>>,
     <<[index |-> "1", count |-> <<"1", "4", "0">>]>>,
     <<[index |-> "0", count |-> <<"1", "5", "0">>],
       [index |-> "1", count |-> <<"1", "4", "0">>]>>}

\* A document of n RUN elements, the highest accession first.
ParseDocs(n) ==
    UNION {{[study_accession |-> study.accession, study_alias |-> study.alias,
             study_title |-> title,
             has_sample |-> TRUE, sample_accession |-> SRS1,
             sample_alias |-> <<"s">>, sample_title |-> None, layout |-> layout,
             illumina |-> <<"T">>, pacbio |-> None, root_pacbio |-> None,
             attributes |-> <<>>,
             runs |-> [k \in 1..m |->
                         [accession |-> RunRefAt(1, m + 1 - k),
                          total_spots |-> <<"1", "5", "0">>,
                          illumina |-> None, stats |-> f[k]]]] :
            study \in Studies, title \in {None, <<"T">>}, layout \in {"SINGLE", "PAIRED"},
            f \in [1..m -> StatColumns]} : m \in 1..n}

\* parse_sra_xml(f, srp, import_runs)
ParseSraXmlCall ==
    /\ pc = "parse_sra_xml"
    /\ returned' = ParseSraXml(docs[1], Srp, import_runs)
    /\ pc' = "parse_sra_xml_returned"
    /\ UNCHANGED <<storeVars, fastqVars, updateVars, checkVars, docs, import_runs, srp_title,
                   project, requests, i, nwarn, nerror, exit_status>>

InitParse ==
    /\ replicates = <<>>
    /\ runs = <<>>
    /\ samples = <<>>
    /\ queries = <<>>
    /\ warnings = <<>>
    /\ posted = <<>>
    /\ dry = FALSE
    /\ total_nwarn = 0
    /\ docs \in {<<d>> : d \in ParseDocs(MaxParseRuns)}
    /\ import_runs \in {{}, {RunRefAt(1, 1)}}
    /\ srp_title = None
    /\ project = None
    /\ requests = <<>>
    /\ returned = None
    /\ path_seq = <<>>
    /\ fqf = <<>>
    /\ info = None
    /\ nread = 0
    /\ max_len = 0
    /\ get_spots = FALSE
    /\ walk = <<>>
    /\ fastq_exts = <<>>
    /\ fastq_fns = <<>>
    /\ fastqs = <<>>
    /\ valid = None
    /\ file_name = <<>>
    /\ error = None
    /\ sra_runs = <<>>
    /\ pc = "parse_sra_xml"
    /\ i = 0
    /\ nwarn = 0
    /\ nerror = 0
    /\ exit_status = NotExited
    /\ missing = <<>>
    /\ queried = <<>>
    /\ summed = <<>>

NextParse == ParseSraXmlCall

SpecParse == InitParse /\ [][NextParse]_vars

-----------------------------------------------------------------------------
(* get_samples_infos of labxdb/ncbi.py, the copy that setup.py packages *)

MaxLegacyDocs == 3

\* The layout of the document: False, True or None.
LegacyPaired(doc) ==
    IF doc.layout = "SINGLE" THEN <<FALSE>>
    ELSE IF doc.layout = "PAIRED" THEN <<TRUE>>
    ELSE None

\* The run dict built for the k-th RUN element; the counts stay strings.
LegacyRun(doc, k) ==
    LET sra_run == doc.runs[k]
        run == [ref |-> sra_run.accession, spots |-> ParseInt(sra_run.total_spots),
                paired |-> LegacyPaired(doc), platform |-> PlatformAt(doc, k)]
        run1 == IF HasStat(sra_run.stats, "0")
                THEN Merge(run, [nread1 |-> StatOf(sra_run.stats, "0")])
                ELSE run
    IN IF HasStat(sra_run.stats, "1")
       THEN Merge(run1, [nread2 |-> StatOf(sra_run.stats, "1")])
       ELSE run1

\* sample, with its runs kept by the filter and sorted by ref.
LegacySample(doc, filter) ==
    LET all == [k \in 1..Len(doc.runs) |-> LegacyRun(doc, k)]
        kept == SelectSeq(all, LAMBDA r : filter = {} \/ r.ref \in filter)
        s0 == [runs |-> SortRuns(kept)]
        s1 == IF doc.has_sample
              THEN Merge(s0, [ref |-> doc.sample_accession, name |-> doc.sample_alias])
              ELSE s0
        s2 == IF doc.sample_title # None THEN Merge(s1, [label |-> doc.sample_title])
              ELSE IF "name" \in DOMAIN s1 THEN Merge(s1, [label |-> s1.name])
              ELSE s1
    IN Merge(s2, [attributes |-> doc.attributes])

\* if i % 3 == 0 or i % 10 == 0, for the position i of enumerate (from 0).
LegacyPauses(position) == position % 3 = 0 \/ position % 10 = 0

\* key=lambda x: x['ref']
LegacySortSamples(list) ==
    Values(SortPairs([k \in 1..Len(list) |-> <<<<list[k].ref>>, list[k]>>]))

LegacyBegin ==
    /\ pc = "legacy_begin"
    /\ samples' = <<>>
    /\ srp_title' = None
    /\ requests' = <<"search">>
    /\ i' = 1
    /\ pc' = "legacy_get_samples_infos"
    /\ UNCHANGED <<storeVars, fastqVars, queries, warnings, posted, dry, total_nwarn, checkVars,
                   docs, returned, import_runs, project, nwarn, nerror, exit_status>>

\* A document of another study: pause and continue.
LegacyOtherStudy ==
    /\ pc = "legacy_get_samples_infos"
    /\ i <= Len(docs)
    /\ ~StudyMatches(docs[i], Srp)
    /\ requests' = requests \o <<"fetch", "sleep">>
    /\ i' = i + 1
    /\ UNCHANGED <<storeVars, fastqVars, updateVars, checkVars, docs, returned, import_runs,
                   srp_title, project, pc, nwarn, nerror, exit_status>>

\* A document of the study: parse, keep a Sample with runs, pause at some positions.
LegacyParse ==
    /\ pc = "legacy_get_samples_infos"
    /\ i <= Len(docs)
    /\ StudyMatches(docs[i], Srp)
    /\ srp_title' = IF docs[i].study_title # None THEN docs[i].study_title ELSE srp_title
    /\ samples' = IF Len(LegacySample(docs[i], import_runs).runs) > 0
                  THEN Append(samples, LegacySample(docs[i], import_runs))
                  ELSE samples
    /\ requests' = IF LegacyPauses(i - 1)
                   THEN requests \o <<"fetch", "sleep">>
                   ELSE Append(requests, "fetch")
    /\ i' = i + 1
    /\ UNCHANGED <<storeVars, fastqVars, queries, warnings, posted, dry, total_nwarn, checkVars,
                   docs, returned, import_runs, project, pc, nwarn, nerror, exit_status>>

LegacyEnd ==
    /\ pc = "legacy_get_samples_infos"
    /\ i > Len(docs)
    /\ samples' = LegacySortSamples(samples)
    /\ returned' = <<srp_title, LegacySortSamples(samples)>>
    /\ pc' = "legacy_returned"
    /\ UNCHANGED <<storeVars, fastqVars, queries, warnings, posted, dry, total_nwarn, checkVars,
                   docs, import_runs, srp_title, project, requests, i, nwarn, nerror,
                   exit_status>>

\* The documents: of the requested study or of another one, without a run or with one.
LegacyDocs(n) ==
    UNION {{[k \in 1..m |->
               [study_accession |-> f[k].study.accession, study_alias |-> f[k].study.alias,
                study_title |-> <<"T">>,
                has_sample |-> TRUE, sample_accession |-> f[k].sample,
                sample_alias |-> <<"s">>, sample_title |-> None, layout |-> "SINGLE",
                illumina |-> <<"T">>, pacbio |-> None, root_pacbio |-> None,
                attributes |-> <<>>,
                runs |-> IF f[k].with_run
                         THEN <<[accession |-> RunRefAt(k, 1),
                                 total_spots |-> <<"1", "5", "0">>, illumina |-> None,
                                 stats |-> <<[index |-> "0", count |-> <<"1", "5", "0">>]>>]>>
                         ELSE <<>>]] :
            f \in [1..m -> [study : {s \in Studies : s.alias # SRP1},
                            sample : {SRS1, SRS2}, with_run : BOOLEAN]]} : m \in 0..n}

InitLegacy ==
    /\ replicates = <<>>
    /\ runs = <<>>
    /\ samples = <<>>
    /\ queries = <<>>
    /\ warnings = <<>>
    /\ posted = <<>>
    /\ dry = FALSE
    /\ total_nwarn = 0
    /\ docs \in LegacyDocs(MaxLegacyDocs)
    /\ import_runs = {}
    /\ srp_title = None
    /\ project = None
    /\ requests = <<>>
    /\ returned = None
    /\ path_seq = <<>>
    /\ fqf = <<>>
    /\ info = None
    /\ nread = 0
    /\ max_len = 0
    /\ get_spots = FALSE
    /\ walk = <<>>
    /\ fastq_exts = <<>>
    /\ fastq_fns = <<>>
    /\ fastqs = <<>>
    /\ valid = None
    /\ file_name = <<>>
    /\ error = None
    /\ sra_runs = <<>>
    /\ pc = "legacy_begin"
    /\ i = 0
    /\ nwarn = 0
    /\ nerror = 0
    /\ exit_status = NotExited
    /\ missing = <<>>
    /\ queried = <<>>
    /\ summed = <<>>

NextLegacy ==
    \/ LegacyBegin
    \/ LegacyOtherStudy
    \/ LegacyParse
    \/ LegacyEnd

SpecLegacy == InitLegacy /\ [][NextLegacy]_vars

-----------------------------------------------------------------------------
(* labxdb/fastq.py: get_illumina_fastq_info, get_pacbio_fastq_info, get_fastq_info *)

MaxRecords == 3
MaxReadLength == 2

NL == "\n"
CR == "\r"
Colon == ":"
Slash == "/"
At == "@"

\* str.split(sep) for a one-character sep: the fields, empty fields kept.
RECURSIVE SplitChar(_, _, _, _)
SplitChar(s, sep, k, cur) ==
    IF k > Len(s) THEN <<cur>>
    ELSE IF s[k] = sep THEN <<cur>> \o SplitChar(s, sep, k + 1, <<>>)
    ELSE SplitChar(s, sep, k + 1, Append(cur, s[k]))

\* str.split(): the words between runs of whitespace, no empty word.
RECURSIVE SplitWords(_, _, _)
SplitWords(s, k, cur) ==
    IF k > Len(s) THEN (IF cur = <<>> THEN <<>> ELSE <<cur>>)
    ELSE IF s[k] \in {" ", "\t", NL, CR}
         THEN (IF cur = <<>> THEN <<>> ELSE <<cur>>) \o SplitWords(s, k + 1, <<>>)
         ELSE SplitWords(s, k + 1, Append(cur, s[k]))

\* str.rstrip('\n\r')
RECURSIVE RStrip(_)
RStrip(s) ==
    IF Len(s) > 0 /\ s[Len(s)] \in {NL, CR} THEN RStrip(SubSeq(s, 1, Len(s) - 1)) ELSE s

\* sep.join(fields)
RECURSIVE JoinWith(_, _)
JoinWith(fields, sep) ==
    IF Len(fields) = 0 THEN <<>>
    ELSE IF Len(fields) = 1 THEN fields[1]
    ELSE fields[1] \o <<sep>> \o JoinWith(Tail(fields), sep)

\* int(s) does not raise ValueError: a non-empty string of decimal digits
\* (signs, blanks and underscores do not occur in the headers).
IsInt(s) ==
    /\ Len(s) > 0
    /\ \A k \in 1..Len(s) : s[k] \in {"0", "1", "2", "3", "4", "5", "6", "7", "8", "9"}

\* get_illumina_fastq_info: the statements of the try block raise.
IlluminaRaises(line) ==
    LET seq_ids == SplitWords(line, 1, <<>>)
    IN \/ Len(seq_ids) = 0
       \/ LET id_fields == SplitChar(seq_ids[1], Colon, 1, <<>>)
          IN \/ Len(id_fields) < 4
             \/ ~IsInt(id_fields[4])
             \/ IF Len(seq_ids) = 2
                THEN ~IsInt(<<seq_ids[2][1]>>)
                ELSE \/ Len(id_fields[Len(id_fields)]) = 0
                     \/ ~IsInt(<<id_fields[Len(id_fields)][1]>>)

\* get_illumina_fastq_info(line): info, or None when the try block raises.
GetIlluminaFastqInfo(line) ==
    IF IlluminaRaises(line) THEN None
    ELSE LET seq_ids == SplitWords(line, 1, <<>>)
             identifier == seq_ids[1]
             id_fields == SplitChar(identifier, Colon, 1, <<>>)
             ids == ("instrument" :> Tail(id_fields[1])) @@ ("run number" :> id_fields[2])
                    @@ ("flowcell" :> id_fields[3]) @@ ("lane" :> ParseInt(id_fields[4]))
         IN IF Len(seq_ids) = 2
            THEN LET meta == seq_ids[2]
                     meta_fields == SplitChar(meta, Colon, 1, <<>>)
                 IN ids @@ ("pair" :> ParseInt(<<meta[1]>>))
                        @@ ("barcode" :> meta_fields[Len(meta_fields)])
            ELSE ids @@ ("pair" :> ParseInt(<<id_fields[Len(id_fields)][1]>>))
                     @@ ("barcode" :> None)

\* get_pacbio_fastq_info(line): info, the empty dict without three fields.
GetPacbioFastqInfo(line) ==
    LET seq_ids == SplitChar(line, Slash, 1, <<>>)
    IN IF Len(seq_ids) >= 3 THEN ("flowcell" :> Tail(seq_ids[1])) ELSE <<>>

\* The chain fastq_fns=[get_illumina_fastq_info, get_pacbio_fastq_info]:
\* the first result that is not None.
HeaderInfo(line) ==
    IF GetIlluminaFastqInfo(line) # None THEN GetIlluminaFastqInfo(line)
    ELSE GetPacbioFastqInfo(line)

\* fqf.readline(): the next line, the empty string at the end of the file.
ReadLine(f) == IF Len(f) = 0 THEN <<>> ELSE f[1]
AfterReadLine(f) == IF Len(f) = 0 THEN f ELSE Tail(f)

\* The first line and the parsers of the header.
GetFastqInfoHeader ==
    /\ pc = "get_fastq_info"
    /\ StartsWith(RStrip(ReadLine(path_seq)), <<At>>)
    /\ info' = HeaderInfo(RStrip(ReadLine(path_seq)))
    /\ fqf' = AfterReadLine(path_seq)
    /\ pc' = "first_sequence"
    /\ UNCHANGED <<storeVars, updateVars, checkVars, fetchVars, file_name, error,
                   path_seq, nread, max_len,
                   get_spots, walk, fastq_exts, fastq_fns, fastqs, valid, i, nwarn, nerror,
                   exit_status>>

\* AssertionError(f'Invalid FASTQ header: {line} in {path_seq}'): the message
\* holds the line and names the file.
InvalidHeader(line, file) ==
    [type |-> "AssertionError", line |-> line, path_seq |-> file]

\* assert line.startswith('@') fails.
GetFastqInfoInvalid ==
    /\ pc = "get_fastq_info"
    /\ ~StartsWith(RStrip(ReadLine(path_seq)), <<At>>)
    /\ fqf' = AfterReadLine(path_seq)
    /\ error' = InvalidHeader(RStrip(ReadLine(path_seq)), path_seq)
    /\ pc' = "raised"
    /\ UNCHANGED <<storeVars, updateVars, checkVars, fetchVars, file_name, path_seq, info, nread,
                   max_len, get_spots, walk, fastq_exts, fastq_fns, fastqs, valid, i, nwarn,
                   nerror, exit_status>>

\* The first sequence, get_spots false, with one more readline before the close.
GetFastqInfoFirstOnly_ReadsOn ==
    /\ pc = "first_sequence"
    /\ ~get_spots
    /\ info' = [read_length |-> Len(RStrip(ReadLine(fqf)))] @@ info
    /\ fqf' = AfterReadLine(AfterReadLine(fqf))
    /\ pc' = "get_fastq_info_returned"
    /\ UNCHANGED <<storeVars, updateVars, checkVars, fetchVars, file_name, error,
                   path_seq, nread, max_len,
                   get_spots, walk, fastq_exts, fastq_fns, fastqs, valid, i, nwarn, nerror,
                   exit_status>>

\* The first sequence, get_spots false: close and return.
GetFastqInfoFirstOnly ==
    /\ pc = "first_sequence"
    /\ ~get_spots
    /\ info' = [read_length |-> Len(RStrip(ReadLine(fqf)))] @@ info
    /\ fqf' = AfterReadLine(fqf)
    /\ pc' = "get_fastq_info_returned"
    /\ UNCHANGED <<storeVars, updateVars, checkVars, fetchVars, file_name, error,
                   path_seq, nread, max_len,
                   get_spots, walk, fastq_exts, fastq_fns, fastqs, valid, i, nwarn, nerror,
                   exit_status>>

\* The first sequence, get_spots true: one read already.
GetFastqInfoFirstSeq ==
    /\ pc = "first_sequence"
    /\ get_spots
    /\ info' = [read_length |-> Len(RStrip(ReadLine(fqf)))] @@ info
    /\ fqf' = AfterReadLine(fqf)
    /\ nread' = 1
    /\ max_len' = Len(RStrip(ReadLine(fqf)))
    /\ pc' = "scan"
    /\ UNCHANGED <<storeVars, updateVars, checkVars, fetchVars, file_name, error,
                   path_seq, get_spots, walk,
                   fastq_exts, fastq_fns, fastqs, valid, i, nwarn, nerror, exit_status>>

\* read = [next(fqf) for i in range(4)] with four lines left.
GetFastqInfoRecord ==
    /\ pc = "scan"
    /\ Len(fqf) >= 4
    /\ LET read == SubSeq(fqf, 1, 4)
           l == Len(read[2]) - 1
       IN max_len' = IF l > max_len THEN l ELSE max_len
    /\ nread' = nread + 1
    /\ fqf' = SubSeq(fqf, 5, Len(fqf))
    /\ UNCHANGED <<storeVars, updateVars, checkVars, fetchVars, file_name, error,
                   path_seq, info, get_spots, walk,
                   fastq_exts, fastq_fns, fastqs, valid, pc, i, nwarn, nerror, exit_status>>

\* StopIteration with fewer than four lines left: break, set spots and read_length.
GetFastqInfoStop ==
    /\ pc = "scan"
    /\ Len(fqf) < 4
    /\ fqf' = <<>>
    /\ info' = [spots |-> nread, read_length |-> max_len] @@ info
    /\ pc' = "get_fastq_info_returned"
    /\ UNCHANGED <<storeVars, updateVars, checkVars, fetchVars, file_name, error,
                   path_seq, nread, max_len,
                   get_spots, walk, fastq_exts, fastq_fns, fastqs, valid, i, nwarn, nerror,
                   exit_status>>

\* The first lines of the files.
Headers ==
    {<<At, "I", Colon, "1", Colon, "F", Colon, "5", Colon, "1", Colon, "2", Colon, "3",
       " ", "2", Colon, "N", Colon, "0", Colon, "G", NL>>,
     <<At, "I", Colon, "1", Colon, "F", Colon, "5", Colon, "1", Colon, "2", Colon, "3", NL>>,
     <<At, "A", Colon, "I", Colon, "1", Colon, "F", Colon, "5", Colon, "1", Colon, "2",
       Colon, "3", " ", "1", Colon, "N", Colon, "0", Colon, "G", NL>>,
     <<At, "I", Colon, "5", Colon, "1", Colon, "2", Colon, "3", "#", "0", Slash, "1", NL>>,
     <<At, "m", Slash, "1", Slash, "c", NL>>,
     <<At, "x", NL>>}

\* A sequence line or a quality line of n characters.
LineOf(c, n) == [k \in 1..(n + 1) |-> IF k <= n THEN c ELSE NL]

\* A complete record: header, sequence, separator, quality.
Record(header, n) == <<header, LineOf("A", n), <<"+", NL>>, LineOf("I", n)>>

\* The first k lines of one more record.
Fragment(k) == SubSeq(Record(<<At, "r", NL>>, 1), 1, k)

\* The records after the first, of the sequence lengths in lens.
RECURSIVE MoreRecords(_)
MoreRecords(lens) ==
    IF Len(lens) = 0 THEN <<>>
    ELSE Record(<<At, "r", NL>>, lens[1]) \o MoreRecords(Tail(lens))

\* Files of 1..n complete records and a trailing fragment of 0..3 lines, the
\* empty file and a file whose first line is no header.
FastqFiles(n) ==
    UNION {{Record(h, lens[1]) \o MoreRecords(Tail(lens)) \o Fragment(k) :
              h \in Headers, lens \in [1..m -> 1..MaxReadLength], k \in 0..3} : m \in 1..n}
    \cup {<<>>, <<<<"x", NL>>>>}

InitInfo ==
    /\ replicates = <<>>
    /\ runs = <<>>
    /\ samples = <<>>
    /\ queries = <<>>
    /\ warnings = <<>>
    /\ posted = <<>>
    /\ dry = FALSE
    /\ total_nwarn = 0
    /\ docs = <<>>
    /\ import_runs = {}
    /\ srp_title = None
    /\ project = None
    /\ requests = <<>>
    /\ returned = None
    /\ path_seq \in FastqFiles(MaxRecords)
    /\ fqf = <<>>
    /\ info = None
    /\ nread = 0
    /\ max_len = 0
    /\ get_spots \in BOOLEAN
    /\ walk = <<>>
    /\ fastq_exts = <<>>
    /\ fastq_fns = <<>>
    /\ fastqs = <<>>
    /\ valid = None
    /\ file_name = <<>>
    /\ error = None
    /\ sra_runs = <<>>
    /\ pc = "get_fastq_info"
    /\ i = 0
    /\ nwarn = 0
    /\ nerror = 0
    /\ exit_status = NotExited
    /\ missing = <<>>
    /\ queried = <<>>
    /\ summed = <<>>

NextInfo ==
    \/ GetFastqInfoHeader
    \/ GetFastqInfoInvalid
    \/ GetFastqInfoFirstOnly
    \/ GetFastqInfoFirstSeq
    \/ GetFastqInfoRecord
    \/ GetFastqInfoStop

SpecInfo == InitInfo /\ [][NextInfo]_vars

-----------------------------------------------------------------------------
(* labxdb/fastq.py: the file name parsers, find_fastqs, check_fastqs *)

MaxFiles == 3

Underscore == "_"
Dot == "."

DecimalDigits == {"0", "1", "2", "3", "4", "5", "6", "7", "8", "9"}
UpperCase ==
    {"A", "B", "C", "D", "E", "F", "G", "H", "I", "J", "K", "L", "M", "N", "O", "P", "Q", "R",
     "S", "T", "U", "V", "W", "X", "Y", "Z"}
LowerCase ==
    {"a", "b", "c", "d", "e", "f", "g", "h", "i", "j", "k", "l", "m", "n", "o", "p", "q", "r",
     "s", "t", "u", "v", "w", "x", "y", "z"}

\* The character classes of the patterns: [a-zA-Z0-9], [R,I] and [1,2,3].
BarcodeClass == LowerCase \cup UpperCase \cup DecimalDigits
EndMarkerClass == {"R", Comma, "I"}
EndDigitClass == {"1", Comma, "2", "3"}

\* The k-th character of the name, no character past its end.
CharAt(fname, k) == IF k \in 1..Len(fname) THEN fname[k] ELSE ""

\* The characters from position k on that [a-zA-Z0-9]+ takes: the whole run,
\* since the pattern goes on with '_'.
RECURSIVE BarcodeRun(_, _)
BarcodeRun(fname, k) ==
    IF CharAt(fname, k) \in BarcodeClass THEN 1 + BarcodeRun(fname, k + 1) ELSE 0

\* '(.+)_([a-zA-Z0-9]+)_L(\d{3})_([R,I][1,2,3])_\d{3}\.f' matches at the start
\* of the name with a first group of p characters.
IlluminaMatchesAt(fname, p) ==
    LET q == p + 2 + BarcodeRun(fname, p + 2)
    IN /\ CharAt(fname, p + 1) = Underscore
       /\ BarcodeRun(fname, p + 2) >= 1
       /\ CharAt(fname, q) = Underscore
       /\ CharAt(fname, q + 1) = "L"
       /\ \A k \in (q + 2)..(q + 4) : CharAt(fname, k) \in DecimalDigits
       /\ CharAt(fname, q + 5) = Underscore
       /\ CharAt(fname, q + 6) \in EndMarkerClass
       /\ CharAt(fname, q + 7) \in EndDigitClass
       /\ CharAt(fname, q + 8) = Underscore
       /\ \A k \in (q + 9)..(q + 11) : CharAt(fname, k) \in DecimalDigits
       /\ CharAt(fname, q + 12) = Dot
       /\ CharAt(fname, q + 13) = "f"

\* The greedy first group: the longest that lets the rest match.
Longest(ps) == CHOOSE p \in ps : \A x \in ps : x <= p

\* parse_illumina_fastq_filename(fname) with a barcode group one character short.
ParseIlluminaFastqFilename_ShortBarcode(fname) ==
    LET ps == {p \in 1..Len(fname) : IlluminaMatchesAt(fname, p)}
    IN IF ps = {} THEN None
       ELSE LET p == Longest(ps)
                q == p + 2 + BarcodeRun(fname, p + 2)
            IN [name |-> SubSeq(fname, 1, p), barcode |-> SubSeq(fname, p + 2, q - 2),
                lane |-> SubSeq(fname, q + 2, q + 4), end |-> SubSeq(fname, q + 6, q + 7)]

\* parse_illumina_fastq_filename(fname)
ParseIlluminaFastqFilename(fname) ==
    LET ps == {p \in 1..Len(fname) : IlluminaMatchesAt(fname, p)}
    IN IF ps = {} THEN None
       ELSE LET p == Longest(ps)
                q == p + 2 + BarcodeRun(fname, p + 2)
            IN [name |-> SubSeq(fname, 1, p), barcode |-> SubSeq(fname, p + 2, q - 1),
                lane |-> SubSeq(fname, q + 2, q + 4), end |-> SubSeq(fname, q + 6, q + 7)]

\* '(.+)_([R,I][1,2,3])\.f' matches with a first group of p characters.
FastqMatchesAt(fname, p) ==
    /\ CharAt(fname, p + 1) = Underscore
    /\ CharAt(fname, p + 2) \in EndMarkerClass
    /\ CharAt(fname, p + 3) \in EndDigitClass
    /\ CharAt(fname, p + 4) = Dot
    /\ CharAt(fname, p + 5) = "f"

\* parse_fastq_filename(fname)
ParseFastqFilename(fname) ==
    LET ps == {p \in 1..Len(fname) : FastqMatchesAt(fname, p)}
    IN IF ps = {} THEN None
       ELSE [name |-> SubSeq(fname, 1, Longest(ps)),
             end |-> SubSeq(fname, Longest(ps) + 2, Longest(ps) + 3)]

\* '(.+)\.fastq' matches with a first group of p characters.
NoEndMatchesAt(fname, p) ==
    SubSeq(fname, p + 1, p + 6) = <<Dot, "f", "a", "s", "t", "q">>

\* parse_no_end_fastq_filename(fname)
ParseNoEndFastqFilename(fname) ==
    LET ps == {p \in 1..(Len(fname) - 6) : NoEndMatchesAt(fname, p)}
    IN IF ps = {} THEN None
       ELSE [name |-> SubSeq(fname, 1, Longest(ps)), end |-> None]

\* fastq_fn(fname) for the parser of the name.
ApplyParser(fastq_fn, fname) ==
    IF fastq_fn = "parse_illumina_fastq_filename" THEN ParseIlluminaFastqFilename(fname)
    ELSE IF fastq_fn = "parse_fastq_filename" THEN ParseFastqFilename(fname)
    ELSE ParseNoEndFastqFilename(fname)

\* m is not None, for m = fastq_fn(fname): the pattern of the parser matches.
ParserMatches(fastq_fn, fname) ==
    IF fastq_fn = "parse_illumina_fastq_filename"
    THEN \E p \in 1..Len(fname) : IlluminaMatchesAt(fname, p)
    ELSE IF fastq_fn = "parse_fastq_filename"
    THEN \E p \in 1..Len(fname) : FastqMatchesAt(fname, p)
    ELSE \E p \in 1..(Len(fname) - 6) : NoEndMatchesAt(fname, p)

\* Every parser of the chain returns None for the name.
NoParser(fns, fname) == \A k \in 1..Len(fns) : ~ParserMatches(fns[k], fname)

\* The position in the chain of the parser whose result is appended: the
\* last one that returns a result.
FirstMatch_Last(fns, fname) ==
    CHOOSE k \in 1..Len(fns) :
       /\ ParserMatches(fns[k], fname)
       /\ \A j \in (k + 1)..Len(fns) : ~ParserMatches(fns[j], fname)

\* The position in the chain of the parser whose result is appended: the
\* loop breaks at the first result that is not None.
FirstMatch(fns, fname) ==
    CHOOSE k \in 1..Len(fns) :
       /\ ParserMatches(fns[k], fname)
       /\ \A j \in 1..(k - 1) : ~ParserMatches(fns[j], fname)

\* fname.endswith(e)
EndsWith(s, suffix) ==
    Len(s) >= Len(suffix) /\ SubSeq(s, Len(s) - Len(suffix) + 1, Len(s)) = suffix

\* any([fname.endswith(e) for e in fastq_exts])
AllowedExt(exts, fname) == \E k \in 1..Len(exts) : EndsWith(fname, exts[k])

\* The position of the key in the mapping, 0 when it is no key.
KeyIndex(mapping, key) ==
    IF \E k \in 1..Len(mapping) : mapping[k][1] = key
    THEN CHOOSE k \in 1..Len(mapping) : mapping[k][1] = key
    ELSE 0

\* fastqs after the body of the loop over the files for one file.
AddFile(mapping, path, fname, exts, fns) ==
    IF ~AllowedExt(exts, fname) \/ NoParser(fns, fname) THEN mapping
    ELSE LET d == [path |-> path, fname |-> fname]
                  @@ ApplyParser(fns[FirstMatch(fns, fname)], fname)
             at == KeyIndex(mapping, d.name)
         IN IF at = 0 THEN Append(mapping, <<d.name, <<d>>>>)
            ELSE [mapping EXCEPT ![at] = <<d.name, Append(mapping[at][2], d)>>]

\* The files of a walk in the order the two loops visit them.
RECURSIVE WalkFiles(_)
WalkFiles(w) ==
    IF Len(w) = 0 THEN <<>>
    ELSE [k \in 1..Len(w[1].files) |-> [path |-> w[1].path, fname |-> w[1].files[k]]]
         \o WalkFiles(Tail(w))

\* fastqs after the first n files of the walk.
RECURSIVE Collected(_, _, _, _)
Collected(files, n, exts, fns) ==
    IF n = 0 THEN <<>>
    ELSE AddFile(Collected(files, n - 1, exts, fns), files[n].path, files[n].fname, exts, fns)

\* v.sort(key=lambda x: x['fname'])
SortGroup(list) == Values(SortPairs([k \in 1..Len(list) |-> <<<<list[k].fname>>, list[k]>>]))

\* The groups sorted, then the keys in sorted order.
SortedFastqs(mapping) ==
    LET groups == [k \in 1..Len(mapping) |-> <<mapping[k][1], SortGroup(mapping[k][2])>>]
    IN Values(SortPairs([k \in 1..Len(groups) |-> <<<<groups[k][1]>>, groups[k]>>]))

\* find_fastqs for a walk.
FindFastqs(w, exts, fns) ==
    SortedFastqs(Collected(WalkFiles(w), Len(WalkFiles(w)), exts, fns))

\* The set of the values of a sequence.
Range(seq) == {seq[k] : k \in 1..Len(seq)}

\* check_fastqs with the number of descriptors compared in place of the paths.
CheckFastqs_CountsFiles(mapping) ==
    \A k \in 1..Len(mapping) : Len(mapping[k][2]) = 1

\* check_fastqs(fastqs)
CheckFastqs(mapping) ==
    \A k \in 1..Len(mapping) :
       Cardinality({mapping[k][2][x].path : x \in 1..Len(mapping[k][2])}) = 1

FindFastqsBegin ==
    /\ pc = "find_fastqs"
    /\ fastqs' = <<>>
    /\ i' = 1
    /\ pc' = "walking"
    /\ UNCHANGED <<storeVars, updateVars, checkVars, fetchVars, file_name, error,
                   path_seq, fqf, info, nread,
                   max_len, get_spots, walk, fastq_exts, fastq_fns, valid, nwarn, nerror,
                   exit_status>>

\* One file of the walk.
FindFastqsFile ==
    /\ pc = "walking"
    /\ i <= Len(WalkFiles(walk))
    /\ fastqs' = AddFile(fastqs, WalkFiles(walk)[i].path, WalkFiles(walk)[i].fname,
                         fastq_exts, fastq_fns)
    /\ i' = i + 1
    /\ UNCHANGED <<storeVars, updateVars, checkVars, fetchVars, file_name, error,
                   path_seq, fqf, info, nread,
                   max_len, get_spots, walk, fastq_exts, fastq_fns, valid, pc, nwarn, nerror,
                   exit_status>>

\* The walk is over: sort the files of each group, then the keys.
FindFastqsEnd ==
    /\ pc = "walking"
    /\ i > Len(WalkFiles(walk))
    /\ fastqs' = SortedFastqs(fastqs)
    /\ pc' = "find_fastqs_returned"
    /\ UNCHANGED <<storeVars, updateVars, checkVars, fetchVars, file_name, error,
                   path_seq, fqf, info, nread,
                   max_len, get_spots, walk, fastq_exts, fastq_fns, valid, i, nwarn, nerror,
                   exit_status>>

\* check_fastqs on the mapping find_fastqs returned.
CheckFastqsCall ==
    /\ pc = "find_fastqs_returned"
    /\ valid' = CheckFastqs(fastqs)
    /\ pc' = "check_fastqs_returned"
    /\ UNCHANGED <<storeVars, updateVars, checkVars, fetchVars, file_name, error,
                   path_seq, fqf, info, nread,
                   max_len, get_spots, walk, fastq_exts, fastq_fns, fastqs, i, nwarn, nerror,
                   exit_status>>

\* The file names.
FileNames ==
    {<<"a", Underscore, "R", "1", Dot, "f", "a", "s", "t", "q">>,
     <<"a", Underscore, "R", "2", Dot, "f", "a", "s", "t", "q">>,
     <<"a", Underscore, "B", Underscore, "L", "0", "0", "1", Underscore, "R", "1",
       Underscore, "0", "0", "1", Dot, "f", "a", "s", "t", "q">>,
     <<"a", Underscore, Comma, "1", Dot, "f", "a", "s", "t", "q">>,
     <<"a", Underscore, "r", "1", Dot, "f", "a", "s", "t", "q">>,
     <<"b", Underscore, "R", "1", Dot, "t", "x", "t">>,
     <<"b", Dot, "f", "a", "s", "t", "q">>}

\* The directories below the root of the walk.
Directories == {"d/x", "d/y"}

\* The orders of the elements of a set.
Orders(S) ==
    {f \in [1..Cardinality(S) -> S] : \A a, b \in 1..Cardinality(S) : a # b => f[a] # f[b]}

\* The names of the files of the set that are in the directory.
NamesIn(files, d) == {f.fname : f \in {x \in files : x.path = d}}

\* What os.walk can yield for a set of files: the root first, then the two
\* directories in any order, the files of each directory in any order.
Walks(files) ==
    UNION {{<<[path |-> "d", files |-> <<>>],
              [path |-> ds[1], files |-> first],
              [path |-> ds[2], files |-> second]>> :
              first \in Orders(NamesIn(files, ds[1])),
              second \in Orders(NamesIn(files, ds[2]))} : ds \in Orders(Directories)}

\* The sets of at most n files.
FileSets(n) ==
    {S \in SUBSET [path : Directories, fname : FileNames] : Cardinality(S) <= n}

\* The chains of parsers of the callers.
Chains ==
    {<<"parse_illumina_fastq_filename", "parse_fastq_filename">>,
     <<"parse_illumina_fastq_filename", "parse_fastq_filename",
       "parse_no_end_fastq_filename">>,
     <<"parse_no_end_fastq_filename", "parse_fastq_filename">>}

InitFind ==
    /\ replicates = <<>>
    /\ runs = <<>>
    /\ samples = <<>>
    /\ queries = <<>>
    /\ warnings = <<>>
    /\ posted = <<>>
    /\ dry = FALSE
    /\ total_nwarn = 0
    /\ docs = <<>>
    /\ import_runs = {}
    /\ srp_title = None
    /\ project = None
    /\ requests = <<>>
    /\ returned = None
    /\ path_seq = <<>>
    /\ fqf = <<>>
    /\ info = None
    /\ nread = 0
    /\ max_len = 0
    /\ get_spots = FALSE
    /\ walk \in UNION {Walks(S) : S \in FileSets(MaxFiles)}
    /\ fastq_exts = <<<<Dot, "f", "a", "s", "t", "q">>>>
    /\ fastq_fns \in Chains
    /\ fastqs = <<>>
    /\ valid = None
    /\ file_name = <<>>
    /\ error = None
    /\ sra_runs = <<>>
    /\ pc = "find_fastqs"
    /\ i = 0
    /\ nwarn = 0
    /\ nerror = 0
    /\ exit_status = NotExited
    /\ missing = <<>>
    /\ queried = <<>>
    /\ summed = <<>>

NextFind ==
    \/ FindFastqsBegin
    \/ FindFastqsFile
    \/ FindFastqsEnd
    \/ CheckFastqsCall

SpecFind == InitFind /\ [][NextFind]_vars

-----------------------------------------------------------------------------
(* parse_illumina_fastq_filename on the names of a sequencing run *)

\* The parts of the file names: sample names with and without '_' (one that
\* is itself a whole Illumina prefix), barcodes, lanes, ends, numeric
\* suffixes and extensions, some of them outside the convention.
NameParts == {<<"s">>, <<"s", Underscore, "t">>, <<"s", Underscore, "B", Underscore, "L", "0", "0", "1", Underscore, "R", "1", Underscore, "0", "0", "1">>}
BarcodeParts == {<<"B">>, <<"1", "b">>, <<"b", "-">>}
LaneParts == {<<"0", "0", "1">>, <<"0", "1">>}
EndParts == {<<"R", "1">>, <<Comma, "3">>, <<"R", "4">>}
SuffixParts == {<<"0", "0", "2">>, <<"0", "x">>}
ExtParts == {<<Dot, "f", "a", "s", "t", "q">>, <<Dot, "t", "x", "t">>}

\* The file names built from the parts.
IlluminaNames ==
    {n \o <<Underscore>> \o b \o <<Underscore, "L">> \o l \o <<Underscore>> \o e
       \o <<Underscore>> \o s \o x :
       n \in NameParts, b \in BarcodeParts, l \in LaneParts, e \in EndParts,
       s \in SuffixParts, x \in ExtParts}

\* m = parse_illumina_fastq_filename(fname)
ParseIlluminaFastqFilenameCall ==
    /\ pc = "parse_illumina_fastq_filename"
    /\ returned' = ParseIlluminaFastqFilename(file_name)
    /\ pc' = "parse_illumina_fastq_filename_returned"
    /\ UNCHANGED <<replicates, runs, samples, queries, warnings, posted, dry, total_nwarn,
                   docs, import_runs, srp_title, project, requests, path_seq, fqf, info, nread,
                   max_len, get_spots, walk, fastq_exts, fastq_fns, fastqs, valid, file_name,
                   error, sra_runs, i, nwarn, nerror, exit_status, missing, queried, summed>>

InitNames ==
    /\ replicates = <<>>
    /\ runs = <<>>
    /\ samples = <<>>
    /\ queries = <<>>
    /\ warnings = <<>>
    /\ posted = <<>>
    /\ dry = FALSE
    /\ total_nwarn = 0
    /\ docs = <<>>
    /\ import_runs = {}
    /\ srp_title = None
    /\ project = None
    /\ requests = <<>>
    /\ returned = None
    /\ path_seq = <<>>
    /\ fqf = <<>>
    /\ info = None
    /\ nread = 0
    /\ max_len = 0
    /\ get_spots = FALSE
    /\ walk = <<>>
    /\ fastq_exts = <<>>
    /\ fastq_fns = <<>>
    /\ fastqs = <<>>
    /\ valid = None
    /\ file_name \in IlluminaNames
    /\ error = None
    /\ sra_runs = <<>>
    /\ pc = "parse_illumina_fastq_filename"
    /\ i = 0
    /\ nwarn = 0
    /\ nerror = 0
    /\ exit_status = NotExited
    /\ missing = <<>>
    /\ queried = <<>>
    /\ summed = <<>>

NextNames == ParseIlluminaFastqFilenameCall

SpecNames == InitNames /\ [][NextNames]_vars

-----------------------------------------------------------------------------
(* main of import_sra_id: the option, the update pass and the check pass of
   one project, with and without --dry *)

MaxDrySamples == 2

\* The Samples of the project: tagged with replicate A (one run or two),
\* tagged with a replicate the store does not hold, untagged, multiplex.
DrySampleShapes ==
    {[name |-> <<"s">>, attributes |-> <<<<"replicate_ref", "A">>>>, spots |-> <<200>>],
     [name |-> <<"s">>, attributes |-> <<<<"replicate_ref", "A">>>>, spots |-> <<200, 200>>],
     [name |-> <<"s">>, attributes |-> <<<<"replicate_ref", "C">>>>, spots |-> <<200>>],
     [name |-> <<"s">>, attributes |-> <<<<"strain", "x">>>>, spots |-> <<200>>],
     [name |-> <<"Raw multiplex:", "m">>, attributes |-> <<<<"replicate_ref", "A">>>>,
      spots |-> <<200>>]}

DrySamples(n) ==
    UNION {{[k \in 1..m |->
               [ref |-> <<"S", Digit[k]>>, name |-> f[k].name, label |-> f[k].name,
                attributes |-> f[k].attributes,
                runs |-> [x \in 1..Len(f[k].spots) |->
                            [ref |-> RunRefAt(k, x), spots |-> f[k].spots[x]]]]] :
            f \in [1..m -> DrySampleShapes]} : m \in 1..n}

\* Table replicate: replicate A not linked yet, linked to the first Sample
\* with or without the publication, and a second replicate linked to the
\* same Sample.
DryReplicateTables ==
    {<<[replicate_id |-> 1, replicate_ref |-> "A", sra_ref |-> None, publication_ref |-> None]>>,
     <<[replicate_id |-> 1, replicate_ref |-> "A", sra_ref |-> SRS1, publication_ref |-> None]>>,
     <<[replicate_id |-> 1, replicate_ref |-> "A", sra_ref |-> SRS1,
        publication_ref |-> PublicationRef]>>,
     <<[replicate_id |-> 1, replicate_ref |-> "A", sra_ref |-> SRS1,
        publication_ref |-> PublicationRef],
       [replicate_id |-> 2, replicate_ref |-> "B", sra_ref |-> SRS1,
        publication_ref |-> PublicationRef]>>}

\* Table run: the runs of replicate A, not linked, linked to the first run of
\* the first Sample (once or twice), linked to its two runs with their summed
\* spots or with other spots.
DryRunRows ==
    <<<<[sra_ref |-> None, spots |-> 200]>>,
      <<[sra_ref |-> RunRefAt(1, 1), spots |-> 200]>>,
      <<[sra_ref |-> RunRefAt(1, 1), spots |-> 200], [sra_ref |-> RunRefAt(1, 1), spots |-> 200]>>,
      <<[sra_ref |-> Join(<<RunRefAt(1, 1), RunRefAt(1, 2)>>), spots |-> 400]>>,
      <<[sra_ref |-> Join(<<RunRefAt(1, 1), RunRefAt(1, 2)>>), spots |-> 300]>>,
      <<>>>>

DryRunTables ==
    {[k \in 1..Len(DryRunRows[t]) |->
        [run_id |-> k, replicate_ref |-> "A", sra_ref |-> DryRunRows[t][k].sra_ref,
         spots |-> DryRunRows[t][k].spots]] : t \in 1..Len(DryRunRows)}

\* The request main posts to 'option/new', as the log of writes holds it.
OptionNew ==
    [table |-> "option", id |-> 0, field |-> "option", old |-> None, new |-> PublicationRef]

\* main: under `not config['dry']`, the publication is added to table option
\* when the options found do not hold it.
MainOption ==
    /\ pc = "main"
    /\ \E listed \in BOOLEAN :
          posted' = IF ~dry /\ ~listed THEN Append(posted, OptionNew) ELSE posted
    /\ pc' = "main_update"
    /\ UNCHANGED <<replicates, runs, samples, queries, warnings, dry, total_nwarn, docs,
                   import_runs, srp_title, project, requests, returned, path_seq, fqf, info,
                   nread, max_len, get_spots, walk, fastq_exts, fastq_fns, fastqs, valid,
                   file_name, error, sra_runs, i, nwarn, nerror, exit_status, missing, queried,
                   summed>>

\* if config['update']: taken.
MainUpdate ==
    /\ pc = "main_update"
    /\ pc' = "search_replicate_ref"
    /\ UNCHANGED <<replicates, runs, samples, queries, warnings, posted, dry, total_nwarn,
                   docs, import_runs, srp_title, project, requests, returned, path_seq, fqf,
                   info, nread, max_len, get_spots, walk, fastq_exts, fastq_fns, fastqs, valid,
                   file_name, error, sra_runs, i, nwarn, nerror, exit_status, missing, queried,
                   summed>>

\* if config['update']: not taken.
MainNoUpdate ==
    /\ pc = "main_update"
    /\ pc' = "updated"
    /\ UNCHANGED <<replicates, runs, samples, queries, warnings, posted, dry, total_nwarn,
                   docs, import_runs, srp_title, project, requests, returned, path_seq, fqf,
                   info, nread, max_len, get_spots, walk, fastq_exts, fastq_fns, fastqs, valid,
                   file_name, error, sra_runs, i, nwarn, nerror, exit_status, missing, queried,
                   summed>>

\* if config['check']: taken.
MainCheck ==
    /\ pc = "updated"
    /\ pc' = "check_replicates_begin"
    /\ UNCHANGED <<replicates, runs, samples, queries, warnings, posted, dry, total_nwarn,
                   docs, import_runs, srp_title, project, requests, returned, path_seq, fqf,
                   info, nread, max_len, get_spots, walk, fastq_exts, fastq_fns, fastqs, valid,
                   file_name, error, sra_runs, i, nwarn, nerror, exit_status, missing, queried,
                   summed>>

\* if config['check']: not taken.
MainNoCheck ==
    /\ pc = "updated"
    /\ pc' = "check_runs_returned"
    /\ UNCHANGED <<replicates, runs, samples, queries, warnings, posted, dry, total_nwarn,
                   docs, import_runs, srp_title, project, requests, returned, path_seq, fqf,
                   info, nread, max_len, get_spots, walk, fastq_exts, fastq_fns, fastqs, valid,
                   file_name, error, sra_runs, i, nwarn, nerror, exit_status, missing, queried,
                   summed>>

\* sra_runs, nw = check_replicates(...); nwarn += nw; check_runs(sra_runs, dbl)
MainCheckRuns ==
    /\ pc = "check_replicates_returned"
    /\ total_nwarn' = total_nwarn + nwarn
    /\ pc' = "check_runs_begin"
    /\ UNCHANGED <<replicates, runs, samples, queries, warnings, posted, dry, docs,
                   import_runs, srp_title, project, requests, returned, path_seq, fqf, info,
                   nread, max_len, get_spots, walk, fastq_exts, fastq_fns, fastqs, valid,
                   file_name, error, sra_runs, i, nwarn, nerror, exit_status, missing, queried,
                   summed>>

InitDry ==
    /\ replicates \in DryReplicateTables
    /\ runs \in DryRunTables
    /\ samples \in DrySamples(MaxDrySamples)
    /\ queries = <<>>
    /\ warnings = <<>>
    /\ posted = <<>>
    /\ dry \in BOOLEAN
    /\ total_nwarn = 0
    /\ docs = <<>>
    /\ import_runs = {}
    /\ srp_title = None
    /\ project = None
    /\ requests = <<>>
    /\ returned = None
    /\ path_seq = <<>>
    /\ fqf = <<>>
    /\ info = None
    /\ nread = 0
    /\ max_len = 0
    /\ get_spots = FALSE
    /\ walk = <<>>
    /\ fastq_exts = <<>>
    /\ fastq_fns = <<>>
    /\ fastqs = <<>>
    /\ valid = None
    /\ file_name = <<>>
    /\ error = None
    /\ sra_runs = <<>>
    /\ pc = "main"
    /\ i = 0
    /\ nwarn = 0
    /\ nerror = 0
    /\ exit_status = NotExited
    /\ missing = <<>>
    /\ queried = <<>>
    /\ summed = <<>>

NextDry ==
    \/ MainOption
    \/ MainUpdate
    \/ MainNoUpdate
    \/ SearchReplicateRef
    \/ UpdateRefBegin
    \/ UpdateRefMultiplex
    \/ UpdateRefNoRef
    \/ UpdateRefNotFound
    \/ UpdateRefFound
    \/ UpdateRefEnd
    \/ MainPost
    \/ MainCheck
    \/ MainNoCheck
    \/ CheckReplicatesBegin
    \/ CheckReplicatesNone
    \/ CheckReplicatesSeveral
    \/ CheckReplicatesTag
    \/ CheckReplicatesOtherPublication
    \/ CheckReplicatesEnd
    \/ MainCheckRuns
    \/ CheckRunsBegin
    \/ CheckRunsSkip
    \/ CheckRunsNone
    \/ CheckRunsSeveral
    \/ CheckRunsOne
    \/ CheckRunsEnd
    \/ MainEnd

SpecDry == InitDry /\ [][NextDry]_vars

-----------------------------------------------------------------------------
(* parse_sra_xml on documents with instrument models at several levels *)

MaxPlatformRuns == 2

\* The PACBIO_SMRT instrument model of a document: none, one below the root
\* (found by './/PLATFORM/...' only), or one in a PLATFORM child of the root
\* (found by './PLATFORM/...' too).
PacbioModels ==
    {[pacbio |-> None, root_pacbio |-> None],
     [pacbio |-> <<"P">>, root_pacbio |-> None],
     [pacbio |-> <<"P">>, root_pacbio |-> <<"P">>]}

\* Documents of the requested study with or without an ILLUMINA instrument
\* model outside the RUN elements, and RUN elements with or without one of
\* their own.
PlatformDocs(n) ==
    UNION {{[study_accession |-> SRP1, study_alias |-> <<"T", "1">>,
             study_title |-> <<"T">>,
             has_sample |-> TRUE, sample_accession |-> SRS1,
             sample_alias |-> <<"s">>, sample_title |-> None, layout |-> "SINGLE",
             illumina |-> illumina, pacbio |-> p.pacbio, root_pacbio |-> p.root_pacbio,
             attributes |-> <<>>,
             runs |-> [k \in 1..m |->
                         [accession |-> RunRefAt(1, k),
                          total_spots |-> <<"1", "5", "0">>,
                          illumina |-> f[k],
                          stats |-> <<[index |-> "0", count |-> <<"1", "5", "0">>]>>]]] :
            illumina \in {None, <<"T">>}, p \in PacbioModels,
            f \in [1..m -> {None, <<"S">>, <<"U">>}]} : m \in 1..n}

InitPlatform ==
    /\ replicates = <<>>
    /\ runs = <<>>
    /\ samples = <<>>
    /\ queries = <<>>
    /\ warnings = <<>>
    /\ posted = <<>>
    /\ dry = FALSE
    /\ total_nwarn = 0
    /\ docs \in {<<d>> : d \in PlatformDocs(MaxPlatformRuns)}
    /\ import_runs = {}
    /\ srp_title = None
    /\ project = None
    /\ requests = <<>>
    /\ returned = None
    /\ path_seq = <<>>
    /\ fqf = <<>>
    /\ info = None
    /\ nread = 0
    /\ max_len = 0
    /\ get_spots = FALSE
    /\ walk = <<>>
    /\ fastq_exts = <<>>
    /\ fastq_fns = <<>>
    /\ fastqs = <<>>
    /\ valid = None
    /\ file_name = <<>>
    /\ error = None
    /\ sra_runs = <<>>
    /\ pc = "parse_sra_xml"
    /\ i = 0
    /\ nwarn = 0
    /\ nerror = 0
    /\ exit_status = NotExited
    /\ missing = <<>>
    /\ queried = <<>>
    /\ summed = <<>>

NextPlatform == ParseSraXmlCall

SpecPlatform == InitPlatform /\ [][NextPlatform]_vars

-----------------------------------------------------------------------------
(* add_samples of import_sra *)

MaxAddSamples == 3

\* The refs 'assign' gives the replicates it creates (prefix SI).
AssignedRef == <<"SI1", "SI2", "SI3", "SI4", "SI5">>

\* The Samples of the project to import: distinct refs and labels, one run or
\* two each.
AddSamples(n) ==
    UNION {{[k \in 1..m |->
               [ref |-> <<"S", Digit[k]>>, label |-> <<"l", Digit[k]>>,
                runs |-> [x \in 1..f[k] |-> [ref |-> RunRefAt(k, x)]]]] :
            f \in [1..m -> 1..2]} : m \in 1..n}

\* Table replicate before the import: the rows of the Samples of imported
\* that were imported before.
ImportedReplicates(imported) ==
    SelectSeq([k \in 1..Len(imported) |->
                 [replicate_id |-> k, replicate_ref |-> Letter[k],
                  sra_ref |-> <<"S", Digit[k]>>, publication_ref |-> None]],
              LAMBDA r : imported[r.replicate_id])

\* dbl.post('replicate', sra_ref EQUAL ...)
SearchReplicatesBySraRef(ref) == SelectSeq(replicates, LAMBDA r : Equal(r.sra_ref, ref))

\* The request posted to 'run/new' for the x-th run of Sample k.
RunNew(k, x) ==
    [request |-> "run/new", run_ref |-> samples[k].runs[x].ref, run_order |-> x,
     sra_ref |-> samples[k].runs[x].ref]

\* NotImplementedError(f'{sample["ref"]} already imported')
AlreadyImported(ref) == [type |-> "NotImplementedError", ref |-> ref]

\* The project: looked up, and created when the store does not hold it.
AddSamplesProject ==
    /\ pc = "add_samples"
    /\ \E found \in BOOLEAN :
          posted' = IF found THEN posted
                    ELSE Append(posted, [request |-> "project/new", project_ref |-> Srp])
    /\ queries' = <<>>
    /\ i' = 1
    /\ pc' = "add_samples_loop"
    /\ UNCHANGED <<replicates, runs, samples, warnings, dry, total_nwarn, docs, import_runs,
                   srp_title, project, requests, returned, path_seq, fqf, info, nread, max_len,
                   get_spots, walk, fastq_exts, fastq_fns, fastqs, valid, file_name, error,
                   sra_runs, nwarn, nerror, exit_status, missing, queried, summed>>

\* A Sample with a replicate of its sra_ref in the store: the error is raised.
AddSamplesImported ==
    /\ pc = "add_samples_loop"
    /\ i <= Len(samples)
    /\ Len(SearchReplicatesBySraRef(samples[i].ref)) > 0
    /\ error' = AlreadyImported(samples[i].ref)
    /\ pc' = "raised"
    /\ UNCHANGED <<replicates, runs, samples, queries, warnings, posted, dry, total_nwarn,
                   docs, import_runs, srp_title, project, requests, returned, path_seq, fqf,
                   info, nread, max_len, get_spots, walk, fastq_exts, fastq_fns, fastqs, valid,
                   file_name, sra_runs, i, nwarn, nerror, exit_status, missing, queried,
                   summed>>

\* A Sample not imported yet: one 'run/new' for each of its runs, the id of
\* the new row saved in the run, and the run added to the query of 'assign'.
AddSamplesRuns ==
    /\ pc = "add_samples_loop"
    /\ i <= Len(samples)
    /\ Len(SearchReplicatesBySraRef(samples[i].ref)) = 0
    /\ LET n == Len(samples[i].runs)
       IN /\ posted' = posted \o [x \in 1..n |-> RunNew(i, x)]
          /\ runs' = runs \o [x \in 1..n |->
                                [run_id |-> Len(runs) + x, run_ref |-> samples[i].runs[x].ref,
                                 run_order |-> x, sra_ref |-> samples[i].runs[x].ref,
                                 replicate_ref |-> None]]
          /\ samples' = [samples EXCEPT ![i].runs =
                            [x \in 1..n |-> [ref |-> samples[i].runs[x].ref,
                                             id |-> Len(runs) + x]]]
          /\ queries' = queries \o [x \in 1..n |->
                                      [run_ref |-> samples[i].runs[x].ref,
                                       label |-> samples[i].label, sample |-> i]]
    /\ i' = i + 1
    /\ UNCHANGED <<replicates, warnings, dry, total_nwarn, docs, import_runs, srp_title,
                   project, requests, returned, path_seq, fqf, info, nread, max_len, get_spots,
                   walk, fastq_exts, fastq_fns, fastqs, valid, file_name, error, sra_runs, pc,
                   nwarn, nerror, exit_status, missing, queried, summed>>

\* After the loop: 'assign' creates the replicate of each Sample and attaches
\* its runs, then 'replicate/edit' sets the sra_ref of each replicate.
AddSamplesAssign ==
    /\ pc = "add_samples_loop"
    /\ i > Len(samples)
    /\ replicates' = replicates \o
          [k \in 1..Len(samples) |->
             [replicate_id |-> Len(samples) + k, replicate_ref |-> AssignedRef[k],
              sra_ref |-> samples[k].ref, publication_ref |-> None]]
    /\ runs' = [r \in 1..Len(runs) |->
                  [runs[r] EXCEPT !.replicate_ref =
                      AssignedRef[queries[CHOOSE q \in 1..Len(queries) :
                                            queries[q].run_ref = runs[r].run_ref].sample]]]
    /\ posted' = Append(posted, [request |-> "assign", query |-> queries]) \o
          [k \in 1..Len(samples) |->
             [request |-> "replicate/edit", id |-> Len(samples) + k,
              sra_ref |-> samples[k].ref]]
    /\ pc' = "add_samples_returned"
    /\ UNCHANGED <<samples, queries, warnings, dry, total_nwarn, docs, import_runs, srp_title,
                   project, requests, returned, path_seq, fqf, info, nread, max_len, get_spots,
                   walk, fastq_exts, fastq_fns, fastqs, valid, file_name, error, sra_runs, i,
                   nwarn, nerror, exit_status, missing, queried, summed>>

InitAdd ==
    /\ runs = <<>>
    /\ samples \in AddSamples(MaxAddSamples)
    /\ replicates \in {ImportedReplicates(f) : f \in UNION {[1..m -> BOOLEAN] : m \in 1..Len(samples)}}
    /\ queries = <<>>
    /\ warnings = <<>>
    /\ posted = <<>>
    /\ dry = FALSE
    /\ total_nwarn = 0
    /\ docs = <<>>
    /\ import_runs = {}
    /\ srp_title = None
    /\ project = None
    /\ requests = <<>>
    /\ returned = None
    /\ path_seq = <<>>
    /\ fqf = <<>>
    /\ info = None
    /\ nread = 0
    /\ max_len = 0
    /\ get_spots = FALSE
    /\ walk = <<>>
    /\ fastq_exts = <<>>
    /\ fastq_fns = <<>>
    /\ fastqs = <<>>
    /\ valid = None
    /\ file_name = <<>>
    /\ error = None
    /\ sra_runs = <<>>
    /\ pc = "add_samples"
    /\ i = 0
    /\ nwarn = 0
    /\ nerror = 0
    /\ exit_status = NotExited
    /\ missing = <<>>
    /\ queried = <<>>
    /\ summed = <<>>

NextAdd ==
    \/ AddSamplesProject
    \/ AddSamplesImported
    \/ AddSamplesRuns
    \/ AddSamplesAssign

SpecAdd == InitAdd /\ [][NextAdd]_vars

-----------------------------------------------------------------------------
(* Properties of check_runs and of the process status (SpecCheck) *)

\* The local runs the store returns for pool run k.
MatchesOf(k) ==
    {r \in 1..Len(runs) :
       /\ runs[r].replicate_ref = sra_runs[k].replicate_ref
       /\ runs[r].sra_ref # None
       /\ Contains(runs[r].sra_ref, sra_runs[k].ref)}

\* The pool runs whose ref is an element of local run r's comma-split sra_ref.
Listed(r) ==
    {k \in 1..Len(sra_runs) :
       \E m \in 1..Len(Split(runs[r].sra_ref)) : Split(runs[r].sra_ref)[m] = sra_runs[k].ref}

\* The pool runs summed before the j-th sum.
SummedBefore(j) == UNION {summed[m].idx : m \in 1..(j - 1)}

EverSummed == UNION {summed[m].idx : m \in 1..Len(summed)}

Mismatch(j) == summed[j].sra_spots # runs[summed[j].run_id].spots

\* C1: when exactly one local run matches the picked pool run, the value
\* compared with its spots is the sum of the spots of the not yet resolved pool
\* runs listed in its comma-split sra_ref, and these are all marked resolved;
\* an equal sum counts no warning and no error and the pass goes on; an
\* unequal sum halts the pass at once, no later pool run being looked up.
C1_SumThenHaltOnMismatch ==
    /\ \A q \in 1..Len(queried) :
         Cardinality(MatchesOf(queried[q])) = 1
           => \E j \in 1..Len(summed) : summed[j].at = queried[q]
    /\ \A j \in 1..Len(summed) :
         LET e == summed[j]
             expected == Listed(e.run_id) \ SummedBefore(j)
         IN /\ MatchesOf(e.at) = {e.run_id}
            /\ e.idx = expected
            /\ e.sra_spots = SumSpots(sra_runs, expected)
            /\ \A k \in expected : sra_runs[k].done = TRUE
            /\ Mismatch(j) => /\ j = Len(summed)
                              /\ pc = "halted"
                              /\ queried[Len(queried)] = e.at
    /\ \A a, b \in 1..Len(queried) : a < b => queried[a] < queried[b]
    /\ nerror = IF \E j \in 1..Len(summed) : Mismatch(j) THEN 1 ELSE 0
    /\ pc = "halted" => \E j \in 1..Len(summed) : Mismatch(j)
    /\ nwarn = Cardinality({q \in 1..Len(queried) : Cardinality(MatchesOf(queried[q])) # 1})

\* A pass that summed two pool runs for one local run, found the sum unequal
\* and halted with a later pool run neither looked up nor resolved.
C1_Witness ==
    /\ pc = "halted"
    /\ Len(summed) >= 1
    /\ Cardinality(summed[Len(summed)].idx) = 2
    /\ \E k \in 1..Len(sra_runs) : k > summed[Len(summed)].at /\ sra_runs[k].done = FALSE

\* C2: a non-zero error count makes the process end as a failure.
C2_ErrorEndsAsFailure ==
    (exit_status # NotExited /\ nerror > 0) => exit_status # <<0>>

\* C9 as stated: a pool run looked up with zero matches counts one warning and
\* stays unresolved, and the 'Missing run' list is exactly the never resolved.
C9_ZeroMatchStaysUnresolved ==
    /\ \A q \in 1..Len(queried) :
         MatchesOf(queried[q]) = {} => sra_runs[queried[q]].done = FALSE
    /\ nwarn = Cardinality({q \in 1..Len(queried) : Cardinality(MatchesOf(queried[q])) # 1})
    /\ pc = "check_runs_returned" =>
         missing = SelectSeq([k \in 1..Len(sra_runs) |-> k], LAMBDA k : k \notin EverSummed)

\* C9 amended: a pool run looked up with zero matches counts one warning and
\* is not resolved by that lookup; it is resolved later only by the sum of a
\* local run matched for a later pool run whose sra_ref lists it; the
\* 'Missing run' list is exactly the pool runs never resolved.
C9_ZeroMatchUnresolvedUnlessListed ==
    /\ \A q \in 1..Len(queried) :
         (MatchesOf(queried[q]) = {} /\ sra_runs[queried[q]].done = TRUE)
           => \E j \in 1..Len(summed) :
                /\ queried[q] \in summed[j].idx
                /\ summed[j].at > queried[q]
                /\ queried[q] \in Listed(summed[j].run_id)
    /\ \A k \in 1..Len(sra_runs) :
         (pc # "check_runs_begin" /\ k \notin EverSummed) => sra_runs[k].done = FALSE
    /\ nwarn = Cardinality({q \in 1..Len(queried) : Cardinality(MatchesOf(queried[q])) # 1})
    /\ pc = "check_runs_returned" =>
         missing = SelectSeq([k \in 1..Len(sra_runs) |-> k], LAMBDA k : k \notin EverSummed)

\* A finished pass in which one zero-match run was resolved by a later sum,
\* another stayed unresolved and is listed as missing.
C9_Witness ==
    /\ pc = "check_runs_returned"
    /\ \E q \in 1..Len(queried) :
         MatchesOf(queried[q]) = {} /\ sra_runs[queried[q]].done = TRUE
    /\ \E q \in 1..Len(queried) :
         /\ MatchesOf(queried[q]) = {}
         /\ sra_runs[queried[q]].done = FALSE
         /\ InList(queried[q], missing)

-----------------------------------------------------------------------------
(* Properties of check_replicates (SpecReplicates) *)

\* The replicates whose stored sra_ref matches Sample k's ref.
ReplicatesOf(k) ==
    {r \in 1..Len(replicates) :
       replicates[r].sra_ref # None /\ Contains(replicates[r].sra_ref, samples[k].ref)}

\* Sample k has exactly one matching replicate, of the expected publication.
Accepted(k) ==
    /\ Cardinality(ReplicatesOf(k)) = 1
    /\ \A r \in ReplicatesOf(k) : replicates[r].publication_ref = PUB1

\* The pool entries Sample k must contribute: its runs, each tagged, or none.
Contribution(k) ==
    IF Accepted(k)
    THEN LET r == CHOOSE x \in ReplicatesOf(k) : TRUE
         IN [m \in 1..Len(samples[k].runs) |->
               [ref |-> samples[k].runs[m].ref, spots |-> samples[k].runs[m].spots,
                replicate_ref |-> replicates[r].replicate_ref]]
    ELSE <<>>

RECURSIVE ContributionsUpTo(_)
ContributionsUpTo(k) ==
    IF k = 0 THEN <<>> ELSE ContributionsUpTo(k - 1) \o Contribution(k)

\* C8: the runs of a Sample enter the pool if and only if exactly one replicate
\* matches the Sample's ref and its publication_ref is the expected one, each
\* of them tagged with that replicate's ref; every other Sample counts exactly
\* one warning and contributes no run.
C8_PoolIsTaggedRunsOfAcceptedSamples ==
    pc \in {"check_replicates", "check_replicates_returned"} =>
       /\ sra_runs = ContributionsUpTo(i - 1)
       /\ nwarn = Cardinality({k \in 1..(i - 1) : ~Accepted(k)})

\* A finished pass with an accepted Sample of two runs and a refused Sample.
C8_Witness ==
    /\ pc = "check_replicates_returned"
    /\ \E k \in 1..Len(samples) : Accepted(k) /\ Len(samples[k].runs) = 2
    /\ \E k \in 1..Len(samples) : ~Accepted(k)
    /\ nwarn = 1

-----------------------------------------------------------------------------
(* Properties of the update pass (SpecUpdate) *)

\* update_ref is running or has returned: the store is as update_ref reads it.
InUpdateRef == pc \in {"update_ref", "update_ref_returned"}

HasTag(k) ==
    \E a \in 1..Len(samples[k].attributes) : samples[k].attributes[a][1] = "replicate_ref"

\* The replicate_ref a Sample declares: the value of its last such attribute.
DeclaredRef(k) ==
    LET tagged == {a \in 1..Len(samples[k].attributes) :
                     samples[k].attributes[a][1] = "replicate_ref"}
        last == CHOOSE a \in tagged : \A b \in tagged : b <= a
    IN samples[k].attributes[last][2]

IsMultiplex(k) == samples[k].name[1] = "Raw multiplex:"

InStore(k) == \E r \in 1..Len(replicates) : replicates[r].replicate_ref = DeclaredRef(k)

\* The row update_ref takes for Sample k: the first with the declared ref.
ReplicateOf(k) ==
    LET rows == {r \in 1..Len(replicates) : replicates[r].replicate_ref = DeclaredRef(k)}
    IN replicates[CHOOSE r \in rows : \A x \in rows : r <= x]

\* Sample k's replicate was found by update_ref.
ReplicateFound(k) == ~IsMultiplex(k) /\ HasTag(k) /\ InStore(k)

\* Sample k cannot be resolved to a local replicate.
Unresolved(k) == ~HasTag(k) \/ ~InStore(k)

QueriesOf(k) == {x \in 1..Len(queries) : queries[x].sample = k}
WarningsOf(k) == {x \in 1..Len(warnings) : warnings[x].sample = k}
RunEdits == {x \in 1..Len(queries) : queries[x].table = "run"}
RunEditsOf(k, m) == {x \in RunEdits : queries[x].sample = k /\ queries[x].sra_run = m}

\* The local runs eligible for the m-th run of Sample k, by position in the table.
EligibleRuns(k, m) ==
    {r \in 1..Len(runs) :
       /\ runs[r].replicate_ref = DeclaredRef(k)
       /\ runs[r].sra_ref = None
       /\ runs[r].spots = samples[k].runs[m].spots}

RunRow(id) == runs[CHOOSE r \in 1..Len(runs) : runs[r].run_id = id]

\* C3: for each external run of a Sample whose replicate was found, when some
\* local run of the replicate has no sra_ref and the same spots, one run edit
\* assigning the external run's ref is queued for the first such local run in
\* store order; no run edit is queued for a local run with other spots or with
\* an sra_ref.
C3_FirstEligibleRunIsLinked ==
    InUpdateRef =>
       /\ \A k \in 1..(i - 1) : ReplicateFound(k) =>
            \A m \in 1..Len(samples[k].runs) : EligibleRuns(k, m) # {} =>
               /\ Cardinality(RunEditsOf(k, m)) = 1
               /\ \A x \in RunEditsOf(k, m) :
                    /\ \A r \in EligibleRuns(k, m) : queries[x].id <= runs[r].run_id
                    /\ \E r \in EligibleRuns(k, m) : queries[x].id = runs[r].run_id
                    /\ queries[x].field = "sra_ref"
                    /\ queries[x].value = samples[k].runs[m].ref
       /\ \A x \in RunEdits :
            /\ RunRow(queries[x].id).sra_ref = None
            /\ RunRow(queries[x].id).spots
                 = samples[queries[x].sample].runs[queries[x].sra_run].spots

\* Local runs of 100 and 200 spots without sra_ref, one external run of 200
\* spots: the second local run is edited, the first is not.
C3_Witness ==
    /\ pc = "update_ref_returned"
    /\ Len(runs) = 2
    /\ \A r \in 1..2 : runs[r].replicate_ref = "A" /\ runs[r].sra_ref = None
    /\ runs[1].spots = 100 /\ runs[2].spots = 200
    /\ Len(samples) = 1 /\ ReplicateFound(1) /\ Len(samples[1].runs) = 1
    /\ \E x \in RunEdits : queries[x].id = 2
    /\ \A x \in RunEdits : queries[x].id # 1

\* C4: no two queued run edits target the same local run.
C4_NoTwoEditsOfOneRun ==
    \A x, y \in RunEdits : x # y => queries[x].id # queries[y].id

\* C5: a Sample whose replicate already has an sra_ref gets no edit queued and
\* exactly one conflict warning.
C5_LinkedReplicateQueuesNothing ==
    InUpdateRef =>
       \A k \in 1..(i - 1) : (ReplicateFound(k) /\ ReplicateOf(k).sra_ref # None) =>
          /\ QueriesOf(k) = {}
          /\ Cardinality({x \in WarningsOf(k) : warnings[x].kind = "replicate_attached"}) = 1

\* C6: over the update pass the sra_ref of a replicate is assigned at most
\* once and only when it was unset, and at most one sra_ref edit is queued for
\* a replicate.
C6_LinkNeverOverwritten ==
    LET writes == {x \in 1..Len(posted) :
                     posted[x].table = "replicate" /\ posted[x].field = "sra_ref"}
        edits == {x \in 1..Len(queries) :
                    queries[x].table = "replicate" /\ queries[x].field = "sra_ref"}
    IN /\ \A x \in writes : posted[x].old = None
       /\ \A x, y \in writes : x # y => posted[x].id # posted[y].id
       /\ \A x, y \in edits : x # y => queries[x].id # queries[y].id

\* C7 as stated: a Sample that cannot be resolved to a local replicate counts
\* exactly one warning and gets no edit.
C7_UnresolvedSampleOneWarning ==
    InUpdateRef =>
       \A k \in 1..(i - 1) : Unresolved(k) =>
          /\ Cardinality(WarningsOf(k)) = 1
          /\ QueriesOf(k) = {}

\* C7 amended: a Sample without a replicate_ref attribute, or whose name does
\* not start with 'Raw multiplex:' and whose declared replicate_ref is not in
\* the store, counts exactly one warning; a 'Raw multiplex:' Sample that
\* declares a replicate_ref counts none; in each case no edit is queued for it
\* and none of its runs is compared (no run edit, no run warning).
C7_UnresolvedSampleSkipped ==
    InUpdateRef =>
       \A k \in 1..(i - 1) : Unresolved(k) =>
          /\ QueriesOf(k) = {}
          /\ \A x \in WarningsOf(k) : warnings[x].sra_run = 0
          /\ IF ~HasTag(k)
             THEN /\ Cardinality(WarningsOf(k)) = 1
                  /\ \A x \in WarningsOf(k) : warnings[x].kind = "no_id"
             ELSE IF IsMultiplex(k)
             THEN WarningsOf(k) = {}
             ELSE /\ Cardinality(WarningsOf(k)) = 1
                  /\ \A x \in WarningsOf(k) : warnings[x].kind = "replicate_not_found"

\* A pass over a Sample without the attribute and a Sample whose declared
\* replicate is not in the store: two warnings, no edit.
C7_Witness ==
    /\ pc = "update_ref_returned"
    /\ \E k \in 1..Len(samples) : ~HasTag(k) /\ ~IsMultiplex(k)
    /\ \E k \in 1..Len(samples) : HasTag(k) /\ ~InStore(k) /\ ~IsMultiplex(k)
    /\ total_nwarn = 2
    /\ queries = <<>>

-----------------------------------------------------------------------------
(* Properties of get_samples_infos (SpecFetch) *)

\* Document k is of the requested study.
OfRequestedStudy(k) ==
    docs[k].study_accession = SRP1 \/ docs[k].study_alias = SRP1

\* The run refs of document k that pass the filter.
KeptRefs(k) ==
    {docs[k].runs[m].accession : m \in {x \in 1..Len(docs[k].runs) :
        import_runs = {} \/ docs[k].runs[x].accession \in import_runs}}

\* The documents whose Sample must be in the Project.
Contributing == {k \in 1..Len(docs) : OfRequestedStudy(k) /\ KeptRefs(k) # {}}

\* C10: a document of another study is a skip and not an error:
\* get_samples_infos raises nothing, fetches every identifier and returns a
\* Project holding exactly the non-empty Samples of the matching documents.
C10_OtherStudyIsSkipped ==
    /\ pc # "raised"
    /\ pc = "get_samples_infos_returned" =>
         /\ Cardinality({x \in 1..Len(requests) : requests[x] = "fetch"}) = Len(docs)
         /\ Len(project.samples) = Cardinality(Contributing)
         /\ \A k \in Contributing :
              \E x \in 1..Len(project.samples) :
                 /\ project.samples[x].ref = docs[k].sample_accession
                 /\ {project.samples[x].runs[m].ref :
                       m \in 1..Len(project.samples[x].runs)} = KeptRefs(k)

-----------------------------------------------------------------------------
(* Properties of parse_sra_xml (SpecParse) *)

ParseReturned == pc = "parse_sra_xml_returned"

\* The RUN element of the parsed document with the accession of a parsed run.
RunElement(ref) ==
    docs[1].runs[CHOOSE k \in 1..Len(docs[1].runs) : docs[1].runs[k].accession = ref]

\* The RUN element has a Statistics column of the index.
HasColumn(ref, index) ==
    \E k \in 1..Len(RunElement(ref).stats) : RunElement(ref).stats[k].index = index

\* C11: called with an expected project ref that is neither the accession nor
\* the alias of the document's study, parse_sra_xml returns a pair (title,
\* Sample) as on a match, with the title unset and a Sample of zero runs.
C11_MismatchReturnsPair ==
    (ParseReturned /\ Srp # docs[1].study_accession /\ Srp # docs[1].study_alias) =>
       /\ returned.kind = "tuple"
       /\ Len(returned.value) = 2
       /\ returned.value[1] = None
       /\ returned.value[2].runs = <<>>

\* C20: for every run parse_sra_xml returns, paired is true exactly when the
\* RUN element has a column of index "1", which is exactly when nread2 is set;
\* nread1 is set exactly when it has a column of index "0".
C20_PairedIffSecondColumn ==
    (ParseReturned /\ returned.kind = "tuple") =>
       \A k \in 1..Len(returned.value[2].runs) :
          LET run == returned.value[2].runs[k]
          IN /\ run.paired = HasColumn(run.ref, "1")
             /\ ("nread2" \in DOMAIN run) = HasColumn(run.ref, "1")
             /\ ("nread1" \in DOMAIN run) = HasColumn(run.ref, "0")

\* A parsed document with a run of both columns (paired, both counts set) and
\* a run of the first column only (not paired).
C20_Witness ==
    /\ ParseReturned
    /\ returned.kind = "tuple"
    /\ \E k \in 1..Len(returned.value[2].runs) :
          LET run == returned.value[2].runs[k]
          IN /\ HasColumn(run.ref, "0") /\ HasColumn(run.ref, "1")
             /\ run.paired /\ run.nread1 = 150 /\ run.nread2 = 140
    /\ \E k \in 1..Len(returned.value[2].runs) :
          LET run == returned.value[2].runs[k]
          IN /\ HasColumn(run.ref, "0") /\ ~HasColumn(run.ref, "1")
             /\ ~run.paired /\ run.nread1 = 150

-----------------------------------------------------------------------------
(* Properties of the pacing of get_samples_infos (SpecFetch, SpecLegacy) *)

\* C12: every fetch request is followed by a pause before the next fetch
\* request: no two consecutive fetch requests without a pause between them.
C12_PauseBetweenFetches ==
    \A k \in 1..(Len(requests) - 1) :
       requests[k] = "fetch" => requests[k + 1] = "sleep"

-----------------------------------------------------------------------------
(* Properties of get_fastq_info and get_illumina_fastq_info (SpecInfo) *)

InfoReturned == pc = "get_fastq_info_returned"

\* The number of complete 4-line records of the file.
CompleteRecords == Len(path_seq) \div 4

\* The length of the sequence line of the k-th record, line terminator excluded.
SequenceLength(k) == Len(RStrip(path_seq[4 * (k - 1) + 2]))

LongestSequence ==
    CHOOSE n \in {SequenceLength(k) : k \in 1..CompleteRecords} :
       \A k \in 1..CompleteRecords : SequenceLength(k) <= n

\* C13: with get_spots, a file of N >= 1 complete records followed by a
\* fragment of 0 to 3 lines is reported with spots = N.
C13_SpotsAreCompleteRecords ==
    (InfoReturned /\ get_spots) => info.spots = CompleteRecords

\* C14: with get_spots, read_length is the maximum length of the sequence
\* lines of the complete records, whichever record is the longest.
C14_ReadLengthIsLongestSequence ==
    (InfoReturned /\ get_spots) => info.read_length = LongestSequence

\* The header line, its identifier and metadata words and its colon-fields.
HeaderLine == RStrip(path_seq[1])
HeaderWords == SplitWords(HeaderLine, 1, <<>>)
IdentifierFields == SplitChar(HeaderWords[1], Colon, 1, <<>>)
MetaFields == SplitChar(HeaderWords[2], Colon, 1, <<>>)

\* The header is colon-delimited: an identifier of five colon-fields or more
\* with a numeric fourth-from-last field.
ColonDelimited ==
    /\ Len(IdentifierFields) >= 5
    /\ IsInt(IdentifierFields[Len(IdentifierFields) - 3])

\* C15: for a colon-delimited header, flowcell is the colon-fields of the
\* identifier but the last four, joined by ':' without the leading '@', and
\* lane is the integer of the fourth-from-last field; with a metadata word
\* pair is its first character and barcode its last colon-field, without one
\* pair is the first character of the identifier's last field and barcode is
\* absent.
C15_FlowcellIsLeadingFields ==
    (pc \in {"first_sequence", "scan", "get_fastq_info_returned"} /\ ColonDelimited) =>
       /\ "flowcell" \in DOMAIN info
       /\ "lane" \in DOMAIN info
       /\ info["flowcell"] =
             Tail(JoinWith(SubSeq(IdentifierFields, 1, Len(IdentifierFields) - 4), Colon))
       /\ info["lane"] = ParseInt(IdentifierFields[Len(IdentifierFields) - 3])
       /\ IF Len(HeaderWords) = 2
          THEN /\ info["pair"] = ParseInt(<<HeaderWords[2][1]>>)
               /\ info["barcode"] = MetaFields[Len(MetaFields)]
          ELSE /\ info["pair"] = ParseInt(<<IdentifierFields[Len(IdentifierFields)][1]>>)
               /\ info["barcode"] = None

-----------------------------------------------------------------------------
(* Properties of find_fastqs and check_fastqs (SpecFind) *)

FindReturned == pc \in {"find_fastqs_returned", "check_fastqs_returned"}

\* The descriptors of the mapping, by group and position.
Descriptors == UNION {{<<k, x>> : x \in 1..Len(fastqs[k][2])} : k \in 1..Len(fastqs)}

\* The directory paths of the k-th group.
PathsOf(k) == {fastqs[k][2][x].path : x \in 1..Len(fastqs[k][2])}

\* C16: check_fastqs returns False if and only if the descriptors of some
\* name span two distinct directory paths or more; it returns True otherwise,
\* for the empty index too.
C16_FalseIffGroupSpansDirectories ==
    pc = "check_fastqs_returned" =>
       (valid = FALSE) = (\E k \in 1..Len(fastqs) : Cardinality(PathsOf(k)) >= 2)

\* check_fastqs returned False for a name with files in two directories.
C16_Witness ==
    /\ pc = "check_fastqs_returned"
    /\ valid = FALSE
    /\ \E k \in 1..Len(fastqs) : PathsOf(k) = Directories

\* The files the walk enumerates.
FilesOfWalk == Range(WalkFiles(walk))

\* C17: for the same set of files the mapping returned is the same, whatever
\* the order in which the walk enumerates the directories and the files.
C17_SameMappingForEveryWalkOrder ==
    FindReturned =>
       \A w \in Walks(FilesOfWalk) : FindFastqs(w, fastq_exts, fastq_fns) = fastqs

\* The places of a file in the mapping.
PlacesOf(f) ==
    {d \in Descriptors : /\ fastqs[d[1]][2][d[2]].path = f.path
                         /\ fastqs[d[1]][2][d[2]].fname = f.fname}

\* The parsers of the chain that match the name.
Matching(fname) == {j \in 1..Len(fastq_fns) : ParserMatches(fastq_fns[j], fname)}

\* The file has an allowed extension and some parser of the chain matches it.
Classified(f) == AllowedExt(fastq_exts, f.fname) /\ Matching(f.fname) # {}

\* C18: a file with an allowed extension is classified by the first parser of
\* the chain that matches it: it is in the mapping exactly once, under the
\* name and with the fields that parser gives; a file that no parser matches
\* or without an allowed extension is in no group.
C18_FirstMatchingConventionOnly ==
    FindReturned =>
       \A f \in FilesOfWalk :
          IF Classified(f)
          THEN /\ Cardinality(PlacesOf(f)) = 1
               /\ \A d \in PlacesOf(f) : \E j \in Matching(f.fname) :
                     /\ \A other \in Matching(f.fname) : j <= other
                     /\ fastqs[d[1]][2][d[2]] =
                           [path |-> f.path, fname |-> f.fname]
                           @@ ApplyParser(fastq_fns[j], f.fname)
                     /\ fastqs[d[1]][1] = ApplyParser(fastq_fns[j], f.fname).name
          ELSE PlacesOf(f) = {}

\* A walk with a file that two parsers of the chain match, in the mapping
\* once, and a file that is in no group.
C18_Witness ==
    /\ FindReturned
    /\ \E f \in FilesOfWalk : Cardinality(Matching(f.fname)) >= 2 /\ Cardinality(PlacesOf(f)) = 1
    /\ \E f \in FilesOfWalk : ~Classified(f) /\ PlacesOf(f) = {}

EndValues ==
    {<<"R", "1">>, <<"R", "2">>, <<"R", "3">>, <<"I", "1">>, <<"I", "2">>, <<"I", "3">>}

\* C19: every descriptor of parse_illumina_fastq_filename or
\* parse_fastq_filename has an end among R1, R2, R3, I1, I2, I3.
C19_EndIsReadOrIndexMarker ==
    FindReturned =>
       \A d \in Descriptors :
          fastqs[d[1]][2][d[2]].end # None => fastqs[d[1]][2][d[2]].end \in EndValues

-----------------------------------------------------------------------------
(* Properties of the runs and Samples returned (SpecParse, SpecFetch) *)

\* The refs of the runs of the parsed document that pass the run filter.
FilteredRefs ==
    {docs[1].runs[k].accession : k \in {x \in 1..Len(docs[1].runs) :
        import_runs = {} \/ docs[1].runs[x].accession \in import_runs}}

\* C21: the runs of the Sample parse_sra_xml returns are the runs of the
\* document whose ref is in the run filter (all of them when the filter is
\* empty), each once, in ascending order of ref.
C21_RunsFilteredOnceAscending ==
    (ParseReturned /\ returned.kind = "tuple") =>
       LET parsed == returned.value[2].runs
       IN /\ {parsed[k].ref : k \in 1..Len(parsed)} = FilteredRefs
          /\ Len(parsed) = Cardinality(FilteredRefs)
          /\ \A k \in 1..(Len(parsed) - 1) : StrLess(parsed[k].ref, parsed[k + 1].ref)

\* A document of two runs, the higher ref first, returned with both runs in
\* ascending order.
C21_Witness ==
    /\ ParseReturned
    /\ returned.kind = "tuple"
    /\ Len(docs[1].runs) = 2
    /\ Len(returned.value[2].runs) = 2
    /\ returned.value[2].runs[1].ref = docs[1].runs[2].accession
    /\ StrLess(docs[1].runs[2].accession, docs[1].runs[1].accession)

\* Sample x is not after Sample y in the order of (ref, ref of the first run).
NotAfter(x, y) ==
    \/ StrLess(x.ref, y.ref)
    \/ x.ref = y.ref /\ (x.runs[1].ref = y.runs[1].ref \/ StrLess(x.runs[1].ref, y.runs[1].ref))

\* C22: in the Project get_samples_infos returns every Sample has a run and
\* the Samples are in ascending order of (ref, ref of the first run).
C22_SamplesNonEmptyAscending ==
    pc = "get_samples_infos_returned" =>
       /\ \A k \in 1..Len(project.samples) : Len(project.samples[k].runs) >= 1
       /\ \A k \in 1..(Len(project.samples) - 1) :
             NotAfter(project.samples[k], project.samples[k + 1])

\* Two documents of one sample ref, the second with the lower run refs: its
\* Sample comes first in the Project.
C22_Witness ==
    /\ pc = "get_samples_infos_returned"
    /\ Len(docs) = 2
    /\ Len(project.samples) = 2
    /\ docs[1].sample_accession = docs[2].sample_accession
    /\ project.samples[1].runs[1].ref \in {docs[2].runs[k].accession : k \in 1..Len(docs[2].runs)}

-----------------------------------------------------------------------------
(* Properties of the header check of get_fastq_info (SpecInfo) *)

\* The first line of the file begins with '@'.
FirstLineIsHeader == Len(path_seq) > 0 /\ path_seq[1][1] = At

\* The first line of the file without its line end, the empty string for
\* the empty file.
FirstLine == IF Len(path_seq) = 0 THEN <<>> ELSE SubSeq(path_seq[1], 1, Len(path_seq[1]) - 1)

\* C23: when the first line does not begin with '@', get_fastq_info raises
\* an error holding the path and the line and returns no info; with
\* get_spots false and a valid header it has read the first two lines of the
\* file and no more when it returns.
C23_InvalidHeaderRaisesAndTwoLinesRead ==
    /\ (pc # "get_fastq_info" /\ ~FirstLineIsHeader) =>
          /\ pc = "raised"
          /\ error.type = "AssertionError"
          /\ error.line = FirstLine
          /\ error.path_seq = path_seq
          /\ info = None
    /\ (InfoReturned /\ ~get_spots) =>
          /\ FirstLineIsHeader
          /\ fqf = SubSeq(path_seq, 3, Len(path_seq))

\* A file whose first line is "x" has been refused.
C23_Witness ==
    /\ pc = "raised"
    /\ ~FirstLineIsHeader
    /\ error.line = <<"x">>
    /\ info = None

-----------------------------------------------------------------------------
(* Properties of parse_illumina_fastq_filename (SpecNames) *)

\* The file name matches Convention A.
MatchesIllumina == \E p \in 1..Len(file_name) : IlluminaMatchesAt(file_name, p)

\* name + '_' + barcode + '_L' + lane + '_' + end + '_' of the returned fields.
Rebuilt ==
    returned.name \o <<Underscore>> \o returned.barcode \o <<Underscore, "L">>
       \o returned.lane \o <<Underscore>> \o returned.end \o <<Underscore>>

\* C24: for a file name matching Convention A, the name rebuilt from the
\* returned fields is the prefix of the file name that precedes the three
\* digits of the numeric suffix.
C24_FieldsRebuildPrefix ==
    (pc = "parse_illumina_fastq_filename_returned" /\ MatchesIllumina) =>
       /\ Len(file_name) >= Len(Rebuilt) + 3
       /\ SubSeq(file_name, 1, Len(Rebuilt)) = Rebuilt
       /\ \A k \in 1..3 : file_name[Len(Rebuilt) + k] \in DecimalDigits
       /\ file_name[Len(Rebuilt) + 4] = Dot

\* A name whose first group is itself a whole Illumina prefix, parsed with a
\* two-character barcode and the end ',3'.
C24_Witness ==
    /\ pc = "parse_illumina_fastq_filename_returned"
    /\ MatchesIllumina
    /\ Len(returned.name) > 3
    /\ Len(returned.barcode) = 2
    /\ returned.end = <<Comma, "3">>

-----------------------------------------------------------------------------
(* Properties of the dry run (SpecDry) *)

\* C25: with the dry-run flag set, no step of main, of the update pass or of
\* the check pass posts option/new, replicate/edit or run/edit: the log of
\* writes stays empty and the tables of the store keep their rows.
C25_DryRunSendsNoEdit ==
    [][dry => (posted' = <<>> /\ replicates' = replicates /\ runs' = runs)]_vars

\* A dry run whose update pass computed edits and counted warnings, at the
\* end of the check pass, with nothing posted.
C25_Witness ==
    /\ dry
    /\ pc = "check_runs_returned"
    /\ Len(queries) > 0
    /\ Len(warnings) > 0
    /\ Len(queried) > 0
    /\ posted = <<>>

-----------------------------------------------------------------------------
(* Properties of the outcome of each external run in update_ref (SpecUpdate) *)

\* The warnings printed for the m-th run of Sample k.
RunWarningsOf(k, m) == {x \in WarningsOf(k) : warnings[x].sra_run = m}

\* Some local run of the replicate of Sample k carries an external ref.
SomeRunLinked(k) ==
    \E r \in 1..Len(runs) : runs[r].replicate_ref = DeclaredRef(k) /\ runs[r].sra_ref # None

\* The external runs of the Samples whose replicate was found.
FoundRuns ==
    UNION {{<<k, m>> : m \in 1..Len(samples[k].runs)} :
             k \in {x \in 1..Len(samples) : ReplicateFound(x)}}

\* The warnings update_ref counts that are about a replicate, not about a run.
ReplicateWarnings ==
    {x \in 1..Len(warnings) : warnings[x].kind \in {"replicate_attached", "replicate_not_found"}}

\* C26: when update_ref returns, every external run of a Sample whose
\* replicate was found has exactly one outcome: one queued run edit when an
\* eligible local run exists, otherwise one 'already attached' warning when a
\* local run of the replicate carries an external ref, otherwise one 'no run
\* found' warning; the returned count holds one warning for each run without
\* an edit and none for a run with one.
C26_OneOutcomePerRun ==
    pc = "update_ref_returned" =>
       /\ \A km \in FoundRuns :
             LET k == km[1]
                 m == km[2]
             IN /\ Cardinality(RunEditsOf(k, m)) + Cardinality(RunWarningsOf(k, m)) = 1
                /\ EligibleRuns(k, m) # {} => Cardinality(RunEditsOf(k, m)) = 1
                /\ (EligibleRuns(k, m) = {} /\ SomeRunLinked(k)) =>
                      \E x \in RunWarningsOf(k, m) : warnings[x].kind = "run_attached"
                /\ (EligibleRuns(k, m) = {} /\ ~SomeRunLinked(k)) =>
                      \E x \in RunWarningsOf(k, m) : warnings[x].kind = "no_run"
       /\ nwarn - Cardinality(ReplicateWarnings)
             = Cardinality({km \in FoundRuns : RunEditsOf(km[1], km[2]) = {}})

\* A Sample with one run linked and one run refused because a local run of
\* the replicate is already attached.
C26_Witness ==
    /\ pc = "update_ref_returned"
    /\ \E k \in 1..Len(samples) :
          /\ ReplicateFound(k)
          /\ Len(samples[k].runs) = 2
          /\ RunEditsOf(k, 1) # {}
          /\ \E x \in RunWarningsOf(k, 2) : warnings[x].kind = "run_attached"

-----------------------------------------------------------------------------
(* Properties of the resolved marks of check_runs (SpecCheck) *)

\* The pass has begun: every pool run carries its mark.
MarksSet == pc \in {"check_runs", "check_runs_returned", "halted", "exited"}

\* C27: during check_runs no pool run is in two sums; a pool run is marked
\* resolved exactly when a sum holds it; a run is looked up at most once and
\* never after the sum that resolved it.
C27_EachRunSummedOnce ==
    MarksSet =>
       /\ \A a, b \in 1..Len(summed) : a # b => summed[a].idx \cap summed[b].idx = {}
       /\ \A k \in 1..Len(sra_runs) : (sra_runs[k].done = TRUE) <=> (k \in EverSummed)
       /\ \A a, b \in 1..Len(queried) : a < b => queried[a] < queried[b]
       /\ \A a \in 1..Len(summed) : \A k \in summed[a].idx :
             \A q \in 1..Len(queried) : queried[q] = k => k <= summed[a].at

\* A sum of two pool runs whose second run was then skipped, with a later
\* run looked up after it.
C27_Witness ==
    /\ pc = "check_runs_returned"
    /\ \E a \in 1..Len(summed) :
          /\ Cardinality(summed[a].idx) = 2
          /\ \E k \in summed[a].idx :
                /\ k > summed[a].at
                /\ \A q \in 1..Len(queried) : queried[q] # k
                /\ \E q \in 1..Len(queried) : queried[q] > k

-----------------------------------------------------------------------------
(* Properties of check_runs on correctly linked data (SpecCheck) *)

\* The local runs whose comma-split sra_ref holds the ref of pool run k.
ListingRuns(k) == {r \in 1..Len(runs) : k \in Listed(r)}

\* Every pool run is listed by exactly one local run, a run of its replicate,
\* and the spots of the pool runs a local run lists sum to its spots.
CorrectlyLinked ==
    /\ \A k \in 1..Len(sra_runs) :
          /\ Cardinality(ListingRuns(k)) = 1
          /\ \A r \in ListingRuns(k) : runs[r].replicate_ref = sra_runs[k].replicate_ref
    /\ \A r \in 1..Len(runs) :
          Listed(r) # {} => SumSpots(sra_runs, Listed(r)) = runs[r].spots

\* C28: on correctly linked data check_runs ends with no warning, no error
\* and an empty missing list, also when the ref of one run is a substring of
\* the ref of another.
C28_NoFalseAlarm ==
    (pc = "check_runs_returned" /\ CorrectlyLinked) =>
       /\ nwarn = 0
       /\ nerror = 0
       /\ missing = <<>>

-----------------------------------------------------------------------------
(* Properties of the platform of the parsed runs (SpecPlatform) *)

\* The run dict returned for the k-th RUN element of the document.
ReturnedRun(k) ==
    LET parsed == returned.value[2].runs
    IN parsed[CHOOSE x \in 1..Len(parsed) : parsed[x].ref = docs[1].runs[k].accession]

\* C29: the platform of each returned run is the instrument model of its own
\* RUN element when it has one, and otherwise the platform of the document,
\* whatever the RUN elements before it hold.
C29_PlatformPerRun ==
    (ParseReturned /\ returned.kind = "tuple") =>
       \A k \in 1..Len(docs[1].runs) :
          ReturnedRun(k).platform =
             IF docs[1].runs[k].illumina # None THEN docs[1].runs[k].illumina
             ELSE DocPlatform(docs[1])

-----------------------------------------------------------------------------
(* Properties of add_samples (SpecAdd) *)

\* The 'run/new' requests posted.
RunNewPosted == {x \in 1..Len(posted) : posted[x].request = "run/new"}

\* C30: when add_samples fails with the 'already imported' error, no run/new
\* request was posted and table run holds no new row, whatever the position
\* of the imported Sample in the list.
C30_RejectsAtomically ==
    pc = "raised" =>
       /\ RunNewPosted = {}
       /\ runs = <<>>

=============================================================================
